---- MODULE Spec2Model ----
(***************************************************************************)
(* Stock ledger and balance engine of kustomproject:                       *)
(*   server/services/movementService.js   createMovement, transfer         *)
(*   server/services/inventoryService.js  startOpname, updateOpnameCount,  *)
(*                                        commitOpname                     *)
(*                                        getStockCard                     *)
(*   server/services/movementService.js   resolveVariantId, createVariant  *)
(*   server/routes/stock.js               the HTTP routes calling them,    *)
(*                                        the CSV import                   *)
(*   server/routes/transactions.js        POST /create (sale, gift)        *)
(*   server/mysql/2025_08_inventory.sql   the tables and their constraints *)
(*                                                                         *)
(* Every `await connection.execute(...)` is one step of the request that   *)
(* runs it; the JavaScript between two awaits runs without interleaving    *)
(* (single-threaded event loop) and belongs to the step of the statement   *)
(* it leads to.  A statement issued through the pool (db.execute) commits  *)
(* on its own.  A statement issued on a connection after                   *)
(* beginTransaction() is buffered in txMov / txBal / txStatus / txOpname   *)
(* until commit() publishes it or rollback() drops it; a plain SELECT sees *)
(* the committed rows and the transaction's own writes (read committed,    *)
(* non-locking read), and a written row stays locked against other         *)
(* writers until the transaction ends.                                     *)
(***************************************************************************)
EXTENDS Integers, Sequences, FiniteSets, TLC

\* ------------------------------------------------------------------ bounds
MaxOps == 3          \* movement and transfer requests accepted, requests overlapping
MaxRaceOps == 2      \* the same, in the smaller specification of overlapping requests
MaxSeqOps == 3       \* movement and transfer requests accepted, one request at a time
MaxOpnameOps == 2    \* movement requests accepted around an opname session
MaxCommitRaceOps == 1 \* movement requests accepted around overlapping commit requests
MaxMovementId == 3   \* largest stock_movements counter at which a commit request is accepted
MaxPriorQty == 2     \* largest qty_on_hand of the row updateStockBalance reads on its own
MaxCost == 2         \* largest unit cost and average cost, in currency units
MaxCount == 2        \* largest counted quantity a count request carries
MaxQty == 1          \* largest quantity a request carries
MaxRouteOps == 2     \* requests POST /movements accepted with any body
MaxImportOps == 1    \* import and resolve requests accepted
MaxRecords == 2      \* records of an imported file
MaxSaleOps == 1      \* requests POST /create accepted
MaxItems == 2        \* items and free_items of a request POST /create
MaxCardLen == 2      \* rows of stock_movements getStockCard reads, and its largest limit
MaxLedgerOps == 2    \* movement and transfer requests accepted beside the delete of a variant
MaxPairOps == 3      \* movement requests accepted, each request slot serving its own location

Procs == {1, 2}      \* requests in flight at the same time
Connections == {1, 2} \* connections of the pool
Variants == {1}      \* rows of product_color_sizes
Locs == {1, 2}       \* location ids: 1 is seeded, 2 is added by POST /locations
Pairs == Variants \X Locs
Sessions == {1}        \* ids of the opname sessions ever inserted
QtyInputs == 0..MaxQty
CountInputs == 0..MaxCount

\* reason codes that requests of the model carry (a subset of the valid ones;
\* a request may pair any of them with any direction)
ReqReasons == {"RETURN_IN", "SALES_OUT"}

VARIABLES
    allowNegative,  \* process.env.ALLOW_NEGATIVE === 'true'
    cost,           \* updateStockBalance on its own: the row it read, its call, its write
    locations,      \* ids of the rows of table locations
    balances,       \* committed rows of stock_balances, per (variant, location)
    movements,      \* committed rows of stock_movements, in insertion order
    opname,         \* committed rows of stock_opname with their stock_opname_items
    nextOpnameId,   \* AUTO_INCREMENT counter of stock_opname
    nextMovementId, \* AUTO_INCREMENT counter of stock_movements
    pc,             \* per request slot: the statement it executes next
    req,            \* per request slot: the request being served
    call,           \* per request slot: payload of the running createMovement
    lv,             \* per request slot: local variables of the running code
    txMov,          \* per request slot: stock_movements rows inserted, not committed
    txBal,          \* per request slot: stock_balances rows written, not committed
    txStatus,       \* per request slot: session whose status update is not committed
    result,         \* per request slot: outcome of the last request served
    nReq,           \* number of requests accepted so far
    catalog,        \* committed rows of products, colors, sizes, product_colors,
                    \* product_color_sizes and their AUTO_INCREMENT counters
    cv,             \* per request slot: the running resolveVariantId / createVariant
    results,        \* per request slot: the results object of the CSV import
    transactions,   \* number of committed rows of table transactions
    card,           \* getStockCard on its own: the rows it reads, its call, its return
    pool            \* the connections of the pool and the functions that took one,
                    \* on their own

vars == <<allowNegative, cost, locations, balances, movements, opname, nextOpnameId,
          nextMovementId, pc, req, call, lv, txMov, txBal, txStatus, result, nReq,
          catalog, cv, results, transactions, card, pool>>

\* the variables of the catalog, the sale flow and the stock card
catVars == <<catalog, cv, transactions, card>>

dbVars == <<balances, movements, opname>>

\* ------------------------------------------------------------ value shapes
NoRow == [exists |-> FALSE, qty_on_hand |-> 0]
Row(q) == [exists |-> TRUE, qty_on_hand |-> q]

NoWrite == [w |-> FALSE, qty_on_hand |-> 0]

NullRef == [kind |-> "NULL", n |-> 0]
TransferRef(t) == [kind |-> "TRANSFER", n |-> t]
OpnameCode(c) == [kind |-> "OPNAME", n |-> c]

\* a row of stock_opname_items, if present; counted is counted_qty IS NOT NULL,
\* variance_null is variance_qty IS NULL
NoItem == [present |-> FALSE, system_qty |-> 0, counted |-> FALSE, counted_qty |-> 0,
           variance_null |-> TRUE, variance_qty |-> 0]
NoSession == [status |-> "NONE", opname_code |-> 0, location_id |-> 0,
              items |-> [x \in Pairs |-> NoItem]]

NoCall == [variantId |-> 0, locationId |-> 0, movementType |-> "", reasonCode |-> "",
           qty |-> 0, refTable |-> "", refId |-> 0, refCode |-> NullRef]
NoReq == [op |-> "none"]
\* DECIMAL(15,2) columns and unitCost, in hundredths of the currency unit
NullCost == [null |-> TRUE, v |-> 0]
Cost(v) == [null |-> FALSE, v |-> v]
NoCost == [phase |-> "none", movementType |-> "", qty |-> 0, unitCost |-> NullCost,
           qty_on_hand |-> 0, avg_cost |-> NullCost, newQty |-> 0, newAvgCost |-> NullCost]

NoLv == [insertId |-> 0, currentQty |-> 0, rowExists |-> FALSE, leg |-> "", opnameId |-> 0,
         opname_code |-> 0, items |-> <<>>, snapshot |-> [x \in Pairs |-> NoItem]]

\* a request slot that holds no connection
NoHold == [fn |-> "", phase |-> "none", connection |-> 0, releases |-> 0,
           releasedOpen |-> FALSE]

\* a field of a request body or a CSV cell: absent, a number, a string that
\* spells a number, or any other non-empty string
Undefined == [t |-> "undefined", n |-> 0]
Number(n) == [t |-> "number", n |-> n]
NumericString(n) == [t |-> "string", n |-> n]
Text == [t |-> "text", n |-> 0]

\* !v is false
truthy(v) == v.t \in {"string", "text"} \/ (v.t = "number" /\ v.n # 0)

\* parseInt(v); NaN is kept as 0, the other number x of which !x holds: every
\* test the result meets (!x, isNaN(x) || x < 0 after v.t is known) tells
\* them apart by v.t or treats them alike
parseInt(v) == IF v.t \in {"number", "string"} THEN v.n ELSE 0

\* isNaN(parseInt(v))
isNaN(v) == v.t \notin {"number", "string"}

\* rows of the catalog tables
CatalogRow(id, name) == [id |-> id, name |-> name]
ProductColor(id, productId, colorId) == [id |-> id, product_id |-> productId, color_id |-> colorId]
ProductColorSize(id, productColorId, sizeId) ==
    [id |-> id, product_color_id |-> productColorId, size_id |-> sizeId]

\* no resolveVariantId / createVariant is running; its arguments, locals and
\* the rows its transaction has inserted
NoCv == [by |-> "", productName |-> "", colorName |-> "", sizeName |-> "",
         productId |-> 0, colorId |-> 0, sizeId |-> 0, productColorId |-> 0, variantId |-> 0,
         products |-> {}, colors |-> {}, sizes |-> {}, product_colors |-> {},
         product_color_sizes |-> {}, balances |-> {}]

\* const results = { imported: 0, created: 0, updated: 0, errors: [] }
NoResults == [imported |-> 0, created |-> 0, updated |-> 0, errors |-> <<>>]

NoCard == [phase |-> "none", productId |-> 0, locationId |-> 0, ledger |-> <<>>,
           qty_on_hand |-> 0, fromDate |-> 0, toDate |-> 0, limit |-> 0,
           opening_qty |-> Number(0), movements |-> <<>>, current_qty |-> 0]

\* mutant: one list of reasons for both directions
validReasons_oneList(movementType) ==
    {"OVERPROD_IN", "RETURN_IN", "ADJUSTMENT_IN", "TRANSFER_IN",
     "SALES_OUT", "GIFT_OUT", "ADJUSTMENT_OUT", "TRANSFER_OUT"}

\* validReasons, createMovement
validReasons(movementType) ==
    CASE movementType = "IN" -> {"OVERPROD_IN", "RETURN_IN", "ADJUSTMENT_IN", "TRANSFER_IN"}
      [] movementType = "OUT" -> {"SALES_OUT", "GIFT_OUT", "ADJUSTMENT_OUT", "TRANSFER_OUT"}
      [] OTHER -> {}

\* a row of stock_movements as createMovement inserts it
MovementRow(c, id) ==
    [id |-> id, variant_id |-> c.variantId, location_id |-> c.locationId,
     movement_type |-> c.movementType, reason_code |-> c.reasonCode, qty |-> c.qty,
     ref_table |-> c.refTable, ref_id |-> c.refId, ref_code |-> c.refCode]

\* ------------------------------------------------------------ connections
\* mutant: transfer calls createMovement without its connection
isTransaction_transferOnPool(p) == req[p].op \in {"commitOpname", "sale"}

\* mutant: commitOpname calls createMovement without its connection
isTransaction_commitOnPool(p) == req[p].op \in {"transfer", "sale"}

\* createMovement(payload, connTx): isTransaction = !!connTx
isTransaction(p) == req[p].op \in {"transfer", "commitOpname", "sale"}

\* the row a SELECT on the request's connection returns
ReadBalance(p, x) ==
    IF isTransaction(p) /\ x \in DOMAIN txBal[p] /\ txBal[p][x].w
    THEN Row(txBal[p][x].qty_on_hand)
    ELSE IF x \in DOMAIN balances THEN balances[x] ELSE NoRow

\* the row is written by another open transaction
Locked(p, x) == \E q \in Procs \ {p} : x \in DOMAIN txBal[q] /\ txBal[q][x].w

\* ------------------------------------------------------------ the catalog
\* names the requests of the model carry; "" is a missing name
SeedProduct == "Sweater"
CanonicalProduct == "T-shirt Katun PDK"
AliasProduct == "KAOS CARDED"
\* the product names requests of the model carry
ProductNames == {SeedProduct, AliasProduct}
SeedColor == "Hitam"
SeedSize == "M"

\* the seeded variant 1 is (Sweater, Hitam, M); every counter is past its row
SeedCatalog ==
    [products |-> {CatalogRow(1, SeedProduct)},
     colors |-> {CatalogRow(1, SeedColor)},
     sizes |-> {CatalogRow(1, SeedSize)},
     product_colors |-> {ProductColor(1, 1, 1)},
     product_color_sizes |-> {ProductColorSize(1, 1, 1)},
     nextProductId |-> 2, nextColorId |-> 2, nextSizeId |-> 2,
     nextProductColorId |-> 2, nextVariantId |-> 2]

\* ------------------------------------------------------------ initial state
Init ==
    /\ allowNegative \in BOOLEAN
    /\ cost = NoCost
    /\ locations = {1}
    /\ balances = [x \in Pairs |-> IF x[2] = 1 THEN Row(0) ELSE NoRow]
    /\ movements = <<>>
    /\ opname = [s \in Sessions |-> NoSession]
    /\ nextOpnameId = 1
    /\ nextMovementId = 1
    /\ pc = [p \in Procs |-> "idle"]
    /\ req = [p \in Procs |-> NoReq]
    /\ call = [p \in Procs |-> NoCall]
    /\ lv = [p \in Procs |-> NoLv]
    /\ txMov = [p \in Procs |-> <<>>]
    /\ txBal = [p \in Procs |-> [x \in Pairs |-> NoWrite]]
    /\ txStatus = [p \in Procs |-> 0]
    /\ result = [p \in Procs |-> "none"]
    /\ nReq = 0
    /\ catalog = SeedCatalog
    /\ cv = [p \in Procs |-> NoCv]
    /\ results = [p \in Procs |-> NoResults]
    /\ transactions = 0
    /\ card = NoCard
    /\ pool = [open |-> [c \in Connections |-> FALSE], hold |-> [p \in Procs |-> NoHold]]

\* ------------------------------------------------- end of a request
\* the response is sent; nothing of the request stays behind
Finish(p, outcome) ==
    /\ pc' = [pc EXCEPT ![p] = "idle"]
    /\ req' = [req EXCEPT ![p] = NoReq]
    /\ call' = [call EXCEPT ![p] = NoCall]
    /\ lv' = [lv EXCEPT ![p] = NoLv]
    /\ txMov' = [txMov EXCEPT ![p] = <<>>]
    /\ txBal' = [txBal EXCEPT ![p] = [x \in Pairs |-> NoWrite]]
    /\ txStatus' = [txStatus EXCEPT ![p] = 0]
    /\ result' = [result EXCEPT ![p] = outcome]
    /\ results' = results

\* a request that goes on after the current statement
Goto(p, label, newCall, newLv) ==
    /\ pc' = [pc EXCEPT ![p] = label]
    /\ call' = [call EXCEPT ![p] = newCall]
    /\ lv' = [lv EXCEPT ![p] = newLv]
    /\ UNCHANGED <<req, result, results>>

\* the CSV import goes on with the next record, or answers when the loop is
\* over: res.json({ success: true, ...results })
NextRow(p, newResults) ==
    /\ results' = [results EXCEPT ![p] = newResults]
    /\ IF Len(lv[p].items) > 1
       THEN /\ pc' = [pc EXCEPT ![p] = "im_row"]
            /\ call' = [call EXCEPT ![p] = NoCall]
            /\ lv' = [lv EXCEPT ![p] = [NoLv EXCEPT !.items = Tail(lv[p].items)]]
            /\ UNCHANGED <<req, result>>
       ELSE /\ pc' = [pc EXCEPT ![p] = "idle"]
            /\ req' = [req EXCEPT ![p] = NoReq]
            /\ call' = [call EXCEPT ![p] = NoCall]
            /\ lv' = [lv EXCEPT ![p] = NoLv]
            /\ result' = [result EXCEPT ![p] = "ok"]

\* results.imported++; results.updated++
Imported(p) == [results[p] EXCEPT !.imported = @ + 1, !.updated = @ + 1]

\* the number the import reports for the record it is processing: Row ${i + 2}
rowNumber(p) == (Len(req[p].records) - Len(lv[p].items)) + 2

\* catch (rowError) { results.errors.push(`Row ${i + 2}: ${rowError.message}`) }
RowError(p, error) ==
    NextRow(p, [results[p] EXCEPT !.errors = Append(@, <<rowNumber(p), error>>)])

\* the sale goes on with the next item, or commits when the loops are over
NextItem(p) ==
    IF Len(lv[p].items) > 1
    THEN Goto(p, "tx_item", NoCall, [lv[p] EXCEPT !.items = Tail(@)])
    ELSE Goto(p, "tx_commit", NoCall, [lv[p] EXCEPT !.items = <<>>])

\* mutant: the import rethrows the error of a record
catchesPerItem_saleOnly(op) == op \in {"sale"}

\* the request wraps each item's work in a try / catch of its own: the
\* records of POST /import-csv, the items of POST /create
catchesPerItem(op) == op \in {"import", "sale"}

\* catch (error) { await connection.rollback(); throw error; }: the buffered
\* writes are dropped.  Without a transaction the statements already executed
\* stay committed.  An error raised inside a per-item try / catch ends the
\* item only.
Throw(p, error) ==
    /\ IF ~catchesPerItem(req[p].op)
       THEN Finish(p, error)
       ELSE IF req[p].op = "import"
       THEN /\ RowError(p, error)
            /\ UNCHANGED <<txMov, txBal, txStatus>>
       ELSE /\ NextItem(p)
            /\ UNCHANGED <<txMov, txBal, txStatus>>
    /\ UNCHANGED dbVars


\* mutant: the commit replaces the rows of stock_movements
CommitTx_replace(p) ==
    /\ movements' = txMov[p]
    /\ balances' = [x \in DOMAIN balances |->
                      IF x \in Pairs /\ txBal[p][x].w
                      THEN Row(txBal[p][x].qty_on_hand) ELSE balances[x]]

\* await connection.commit(): the buffered rows become visible together
CommitTx(p) ==
    /\ movements' = movements \o txMov[p]
    /\ balances' = [x \in DOMAIN balances |->
                      IF x \in Pairs /\ txBal[p][x].w
                      THEN Row(txBal[p][x].qty_on_hand) ELSE balances[x]]

\* ------------------------------------------------ POST /api/stock/movements
\* the handler on the requests that name one of the given locations
ReqMovementAt(p, budget, locationIds) ==
    /\ pc[p] = "idle"
    /\ nReq < budget
    /\ nReq' = nReq + 1
    /\ \E variantId \in Variants, locationId \in locationIds, movementType \in {"IN", "OUT"},
          reasonCode \in ReqReasons, qty \in QtyInputs :
          IF qty = 0
          THEN \* 400: missing required fields
               /\ Finish(p, "BadRequest")
               /\ UNCHANGED dbVars
          ELSE /\ pc' = [pc EXCEPT ![p] = "cm_check"]
               /\ req' = [req EXCEPT ![p] = [op |-> "movement"]]
               /\ call' = [call EXCEPT ![p] =
                             [NoCall EXCEPT !.variantId = variantId, !.locationId = locationId,
                                            !.movementType = movementType,
                                            !.reasonCode = reasonCode, !.qty = qty]]
               /\ result' = [result EXCEPT ![p] = "none"]
               /\ results' = results
               /\ UNCHANGED <<lv, txMov, txBal, txStatus, dbVars>>
    /\ UNCHANGED <<allowNegative, pool, cost, catVars, locations, nextOpnameId, nextMovementId>>

ReqMovement(p, budget) == ReqMovementAt(p, budget, Locs)

\* ------------------------------------------- MovementService.createMovement
\* mutant: the operands of the comparison swapped
insufficientStock_swapped(currentQty, qty) == qty < currentQty

\* if (currentQty < qty) throw new Error('Insufficient stock. ...')
insufficientStock(currentQty, qty) == currentQty < qty

\* if (!variantId || !locationId || !movementType || !reasonCode || !qty)
missingFields(c) ==
    c.variantId = 0 \/ c.locationId = 0 \/ c.movementType = "" \/ c.reasonCode = "" \/ c.qty = 0

\* mutant: only a quantity below -1 is refused
notPositive_belowMinusOne(qty) == qty < 0 - 1

\* if (qty <= 0) throw new Error('Quantity must be positive')
notPositive(qty) == qty <= 0

\* mutant: the stock is tested before the reason code
validation_stockFirst(c, currentQty) ==
    IF missingFields(c) THEN "InvalidArgument"
    ELSE IF notPositive(c.qty) THEN "InvalidArgument"
    ELSE IF c.movementType = "OUT" /\ ~allowNegative /\ insufficientStock(currentQty, c.qty)
    THEN "InsufficientStock"
    ELSE IF c.reasonCode \notin validReasons(c.movementType) THEN "InvalidReasonCode"
    ELSE "ok"

\* the checks of createMovement in their order, currentQty being what the
\* SELECT of the balance returns when the checks before it have passed
validation(c, currentQty) ==
    IF missingFields(c) THEN "InvalidArgument"
    ELSE IF notPositive(c.qty) THEN "InvalidArgument"
    ELSE IF c.reasonCode \notin validReasons(c.movementType) THEN "InvalidReasonCode"
    ELSE IF c.movementType = "OUT" /\ ~allowNegative /\ insufficientStock(currentQty, c.qty)
    THEN "InsufficientStock"
    ELSE "ok"

\* the validation and, for an OUT movement without ALLOW_NEGATIVE, the SELECT
\* of the balance with the insufficient-stock test
CM_Check(p) ==
    /\ pc[p] = "cm_check"
    /\ LET c == call[p]
           x == <<c.variantId, c.locationId>>
           row == ReadBalance(p, x)
           currentQty == IF row.exists THEN row.qty_on_hand ELSE 0
           outcome == validation(c, currentQty)
       IN  IF outcome # "ok"
           THEN Throw(p, outcome)
           ELSE /\ Goto(p, "cm_insert", c, lv[p])
                /\ UNCHANGED <<txMov, txBal, txStatus, dbVars>>
    /\ UNCHANGED <<allowNegative, pool, cost, catVars, locations, nextOpnameId, nextMovementId, nReq>>

\* the ids of the rows of product_color_sizes
VariantIds == {r.id : r \in catalog.product_color_sizes}

\* INSERT INTO stock_movements; the foreign keys on variant_id and location_id
\* reject a variant or a location that has no row
CM_Insert(p) ==
    /\ pc[p] = "cm_insert"
    /\ LET c == call[p] IN
       IF c.locationId \notin locations \/ c.variantId \notin VariantIds
       THEN /\ Throw(p, "DbError")
            /\ UNCHANGED nextMovementId
       ELSE /\ IF isTransaction(p)
               THEN /\ txMov' = [txMov EXCEPT ![p] = Append(@, MovementRow(c, nextMovementId))]
                    /\ UNCHANGED movements
               ELSE /\ movements' = Append(movements, MovementRow(c, nextMovementId))
                    /\ UNCHANGED txMov
            /\ nextMovementId' = nextMovementId + 1
            \* movementResult.insertId
            /\ Goto(p, "cm_read", c, [lv[p] EXCEPT !.insertId = nextMovementId])
            /\ UNCHANGED <<txBal, txStatus, balances, opname>>
    /\ UNCHANGED <<allowNegative, pool, cost, catVars, locations, nextOpnameId, nReq>>

\* updateStockBalance: SELECT qty_on_hand, avg_cost
CM_Read(p) ==
    /\ pc[p] = "cm_read"
    /\ LET c == call[p]
           row == ReadBalance(p, <<c.variantId, c.locationId>>)
       IN  Goto(p, "cm_write", c,
                [lv[p] EXCEPT !.currentQty = IF row.exists THEN row.qty_on_hand ELSE 0,
                              !.rowExists = row.exists])
    /\ UNCHANGED <<txMov, txBal, txStatus, dbVars>>
    /\ UNCHANGED <<allowNegative, pool, cost, catVars, locations, nextOpnameId, nextMovementId, nReq>>

\* mutant: an OUT movement adds the quantity
newQty_outAdds(movementType, currentQty, qty) == currentQty + qty

\* mutant: an IN movement leaves the quantity as it is
newQty_inIgnored(movementType, currentQty, qty) ==
    IF movementType = "OUT" THEN currentQty - qty ELSE currentQty

\* updateStockBalance: the quantity it writes
newQty(movementType, currentQty, qty) ==
    IF movementType = "IN" THEN currentQty + qty
    ELSE IF movementType = "OUT" THEN currentQty - qty
    ELSE currentQty

\* mutant: the operands of the generated column swapped
variance_qty_reversed(item) == item.system_qty - item.counted_qty

\* stock_opname_items.variance_qty GENERATED ALWAYS AS (counted_qty - system_qty)
variance_qty(item) == item.counted_qty - item.system_qty

\* mutant: the column keeps the value it had
generatedColumn_kept(item) == item

\* the row as it is stored: the generated column is computed from the values
\* the INSERT or UPDATE leaves in the row, and is NULL when counted_qty is
generatedColumn(item) ==
    [item EXCEPT !.variance_null = ~item.counted,
                 !.variance_qty = IF item.counted THEN variance_qty(item) ELSE 0]

Abs(n) == IF n < 0 THEN -n ELSE n

\* mutant: the direction of the adjustment swapped
AdjustmentCall_swapped(item, opnameId, opname_code) ==
    [NoCall EXCEPT !.variantId = item.variant_id, !.locationId = item.location_id,
                   !.movementType = IF item.variance_qty > 0 THEN "OUT" ELSE "IN",
                   !.reasonCode = IF item.variance_qty > 0 THEN "ADJUSTMENT_OUT"
                                                            ELSE "ADJUSTMENT_IN",
                   !.qty = Abs(item.variance_qty),
                   !.refTable = "stock_opname", !.refId = opnameId,
                   !.refCode = OpnameCode(opname_code)]

\* commitOpname: the payload of the adjustment booked for one selected item
AdjustmentCall(item, opnameId, opname_code) ==
    [NoCall EXCEPT !.variantId = item.variant_id, !.locationId = item.location_id,
                   !.movementType = IF item.variance_qty > 0 THEN "IN" ELSE "OUT",
                   !.reasonCode = IF item.variance_qty > 0 THEN "ADJUSTMENT_IN"
                                                            ELSE "ADJUSTMENT_OUT",
                   !.qty = Abs(item.variance_qty),
                   !.refTable = "stock_opname", !.refId = opnameId,
                   !.refCode = OpnameCode(opname_code)]

\* what the caller of createMovement does when it returns (the final SELECT of
\* the inserted row by id changes nothing and is part of this step)
Continue(p) ==
    LET l == [lv[p] EXCEPT !.insertId = 0, !.currentQty = 0, !.rowExists = FALSE] IN
    CASE req[p].op = "movement" ->
           /\ pc' = [pc EXCEPT ![p] = "idle"]
           /\ req' = [req EXCEPT ![p] = NoReq]
           /\ call' = [call EXCEPT ![p] = NoCall]
           /\ lv' = [lv EXCEPT ![p] = NoLv]
           /\ result' = [result EXCEPT ![p] = "ok"]
           /\ results' = results
      [] req[p].op = "transfer" /\ lv[p].leg = "out" ->
           \* transfer: the IN movement to the destination
           Goto(p, "cm_check",
                [NoCall EXCEPT !.variantId = req[p].variantId,
                               !.locationId = req[p].toLocationId,
                               !.movementType = "IN", !.reasonCode = "TRANSFER_IN",
                               !.qty = req[p].qty, !.refCode = req[p].refCode],
                [l EXCEPT !.leg = "in"])
      [] req[p].op = "transfer" /\ lv[p].leg = "in" ->
           Goto(p, "t_commit", NoCall, l)
      [] req[p].op = "commitOpname" ->
           \* commitOpname: the next item of the loop, or the status update
           IF Len(lv[p].items) > 1
           THEN Goto(p, "cm_check",
                     AdjustmentCall(lv[p].items[2], lv[p].opnameId, lv[p].opname_code),
                     [l EXCEPT !.items = Tail(@)])
           ELSE Goto(p, "co_status", NoCall, [l EXCEPT !.items = <<>>])
      [] req[p].op = "import" ->
           \* the record is done
           NextRow(p, Imported(p))
      [] req[p].op = "sale" ->
           NextItem(p)

\* updateStockBalance: UPDATE stock_balances when the SELECT returned a row,
\* INSERT INTO stock_balances otherwise (unique key on variant_id, location_id)
CM_Write(p) ==
    /\ pc[p] = "cm_write"
    /\ LET c == call[p]
           x == <<c.variantId, c.locationId>>
           q == newQty(c.movementType, lv[p].currentQty, c.qty)
       IN  /\ ~Locked(p, x)
           /\ IF ~lv[p].rowExists /\ (ReadBalance(p, x).exists \/ c.variantId \notin VariantIds)
              THEN Throw(p, "DbError")      \* ER_DUP_ENTRY, or the foreign key on variant_id
              ELSE IF lv[p].rowExists /\ ~ReadBalance(p, x).exists
              THEN \* the row was deleted since the SELECT: the UPDATE matches no row
                   /\ Continue(p)
                   /\ UNCHANGED <<txMov, txBal, txStatus, dbVars>>
              ELSE /\ IF isTransaction(p)
                      THEN /\ txBal' = [txBal EXCEPT ![p][x] = [w |-> TRUE, qty_on_hand |-> q]]
                           /\ UNCHANGED balances
                      ELSE /\ balances' = [balances EXCEPT ![x] = Row(q)]
                           /\ UNCHANGED txBal
                   /\ Continue(p)
                   /\ UNCHANGED <<txMov, txStatus, movements, opname>>
    /\ UNCHANGED <<allowNegative, pool, cost, catVars, locations, nextOpnameId, nextMovementId, nReq>>

\* a statement that waits for a row lock fails (lock wait timeout, deadlock)
LockTimeout(p) ==
    /\ pc[p] = "cm_write"
    /\ Locked(p, <<call[p].variantId, call[p].locationId>>)
    /\ Throw(p, "DbError")
    /\ UNCHANGED <<allowNegative, pool, cost, catVars, locations, nextOpnameId, nextMovementId, nReq>>

\* ------------------------------------------------- POST /api/stock/transfer
ReqTransfer(p, budget) ==
    /\ pc[p] = "idle"
    /\ nReq < budget
    /\ nReq' = nReq + 1
    /\ \E variantId \in Variants, fromLocationId \in Locs, toLocationId \in Locs,
          qty \in QtyInputs :
          IF qty = 0
          THEN /\ Finish(p, "BadRequest")
               /\ UNCHANGED dbVars
          ELSE /\ pc' = [pc EXCEPT ![p] = "t_begin"]
               /\ req' = [req EXCEPT ![p] =
                            [op |-> "transfer", variantId |-> variantId,
                             fromLocationId |-> fromLocationId,
                             toLocationId |-> toLocationId, qty |-> qty,
                             refCode |-> TransferRef(nReq + 1)]]
               /\ result' = [result EXCEPT ![p] = "none"]
               /\ results' = results
               /\ UNCHANGED <<call, lv, txMov, txBal, txStatus, dbVars>>
    /\ UNCHANGED <<allowNegative, pool, cost, catVars, locations, nextOpnameId, nextMovementId>>

\* mutant: the same-location test is missing
sameLocation_never(fromLocationId, toLocationId) == FALSE

\* if (fromLocationId === toLocationId) throw ...
sameLocation(fromLocationId, toLocationId) == fromLocationId = toLocationId

\* MovementService.transfer: beginTransaction, the same-location test and the
\* call of createMovement for the OUT movement from the source
TransferBegin(p) ==
    /\ pc[p] = "t_begin"
    /\ IF sameLocation(req[p].fromLocationId, req[p].toLocationId)
       THEN Throw(p, "InvalidArgument")
       ELSE /\ Goto(p, "cm_check",
                    [NoCall EXCEPT !.variantId = req[p].variantId,
                                   !.locationId = req[p].fromLocationId,
                                   !.movementType = "OUT", !.reasonCode = "TRANSFER_OUT",
                                   !.qty = req[p].qty, !.refCode = req[p].refCode],
                    [lv[p] EXCEPT !.leg = "out"])
            /\ UNCHANGED <<txMov, txBal, txStatus, dbVars>>
    /\ UNCHANGED <<allowNegative, pool, cost, catVars, locations, nextOpnameId, nextMovementId, nReq>>

\* MovementService.transfer: await connection.commit()
TransferCommit(p) ==
    /\ pc[p] = "t_commit"
    /\ CommitTx(p)
    /\ Finish(p, "ok")
    /\ UNCHANGED <<opname, allowNegative, pool, cost, catVars, locations, nextOpnameId, nextMovementId, nReq>>

\* ----------------------------------------------- POST /api/inventory/locations
\* INSERT INTO locations; no stock_balances row is created for the location
AddLocation ==
    /\ \E l \in Locs \ locations : locations' = locations \cup {l}
    /\ UNCHANGED <<allowNegative, pool, cost, catVars, balances, movements, opname, nextOpnameId, nextMovementId,
                   pc, req, call, lv, txMov, txBal, txStatus, result, results, nReq>>

\* ---------------------------------------------- POST /api/stock/opname/start
ReqStartOpname(p) ==
    /\ pc[p] = "idle"
    /\ nextOpnameId \in Sessions
    /\ \E opnameCode \in Sessions, locationId \in {0} \cup Locs :
          /\ pc' = [pc EXCEPT ![p] = "so_insert"]
          /\ req' = [req EXCEPT ![p] = [op |-> "startOpname", opnameCode |-> opnameCode,
                                        locationId |-> locationId]]
          /\ result' = [result EXCEPT ![p] = "none"]
          /\ results' = results
    /\ UNCHANGED <<call, lv, txMov, txBal, txStatus, dbVars>>
    /\ UNCHANGED <<allowNegative, pool, cost, catVars, locations, nextOpnameId, nextMovementId, nReq>>

\* a session row with this code is inserted by another open transaction
CodeLocked(p, code) ==
    \E q \in Procs \ {p} : /\ pc[q] \in {"so_snapshot", "so_commit"}
                           /\ req[q].opnameCode = code

\* startOpname: beginTransaction and INSERT INTO stock_opname (status ACTIVE);
\* opname_code is unique, location_id references locations
SO_Insert(p) ==
    /\ pc[p] = "so_insert"
    /\ ~CodeLocked(p, req[p].opnameCode)
    /\ IF \/ \E s \in Sessions : /\ opname[s].status # "NONE"
                                 /\ opname[s].opname_code = req[p].opnameCode
          \/ req[p].locationId \notin {0} \cup locations
       THEN /\ Throw(p, "DbError")
            /\ UNCHANGED nextOpnameId
       ELSE /\ nextOpnameId \in Sessions
            /\ nextOpnameId' = nextOpnameId + 1
            /\ Goto(p, "so_snapshot", NoCall, [lv[p] EXCEPT !.opnameId = nextOpnameId])
            /\ UNCHANGED <<txMov, txBal, txStatus, dbVars>>
    /\ UNCHANGED <<allowNegative, pool, cost, catVars, locations, nextMovementId, nReq>>

\* mutant: the WHERE clause does not test the quantity
inSnapshot_anyQty(x, locationId) ==
    /\ balances[x].exists
    /\ (locationId = 0 \/ x[2] = locationId)

\* mutant: the WHERE clause lets a quantity of zero pass
inSnapshot_notNegative(x, locationId) ==
    /\ balances[x].exists
    /\ balances[x].qty_on_hand >= 0
    /\ (locationId = 0 \/ x[2] = locationId)

\* the row of x is returned by SELECT ... FROM stock_balances sb WHERE
\* sb.qty_on_hand > 0 [AND sb.location_id = ?]
inSnapshot(x, locationId) ==
    /\ balances[x].exists
    /\ balances[x].qty_on_hand > 0
    /\ (locationId = 0 \/ x[2] = locationId)

\* startOpname: the SELECT of the balances and one INSERT INTO
\* stock_opname_items per row returned
SO_Snapshot(p) ==
    /\ pc[p] = "so_snapshot"
    /\ Goto(p, "so_commit", NoCall,
            [lv[p] EXCEPT !.snapshot =
                [x \in Pairs |->
                    IF inSnapshot(x, req[p].locationId)
                    THEN generatedColumn([NoItem EXCEPT
                                             !.present = TRUE,
                                             !.system_qty = balances[x].qty_on_hand])
                    ELSE NoItem]])
    /\ UNCHANGED <<txMov, txBal, txStatus, dbVars>>
    /\ UNCHANGED <<allowNegative, pool, cost, catVars, locations, nextOpnameId, nextMovementId, nReq>>

\* mutant: the INSERT leaves status to the column default
startStatus_default == "DRAFT"

\* INSERT INTO stock_opname (..., status, ...) VALUES (?, ?, 'ACTIVE', ...)
startStatus == "ACTIVE"

\* startOpname: await connection.commit()
SO_Commit(p) ==
    /\ pc[p] = "so_commit"
    /\ opname' = [opname EXCEPT ![lv[p].opnameId] =
                     [status |-> startStatus, opname_code |-> req[p].opnameCode,
                      location_id |-> req[p].locationId, items |-> lv[p].snapshot]]
    /\ Finish(p, "ok")
    /\ UNCHANGED <<balances, movements>>
    /\ UNCHANGED <<allowNegative, pool, cost, catVars, locations, nextOpnameId, nextMovementId, nReq>>

\* ------------------------------------------ PUT /api/stock/opname/:id/count
\* result.affectedRows of UPDATE stock_opname_items SET counted_qty = ? ...
\* WHERE opname_id = ? AND variant_id = ? AND location_id = ?
affectedRows(opnameId, x) == IF opname[opnameId].items[x].present THEN 1 ELSE 0

\* mutant: affectedRows is not tested
countResult_unchecked(n) == "ok"

\* if (result.affectedRows === 0) throw new Error('Opname item not found')
countResult(n) == IF n = 0 THEN "NotFound" ELSE "ok"

\* mutant: the UPDATE sets system_qty as well
updateOpnameCount_systemQty(p, opnameId, x, countedQty) ==
    /\ opname' = IF opname[opnameId].items[x].present
                 THEN [opname EXCEPT ![opnameId].items[x] =
                          generatedColumn([@ EXCEPT !.counted = TRUE,
                                                    !.counted_qty = countedQty,
                                                    !.system_qty = countedQty])]
                 ELSE opname
    /\ Finish(p, countResult(affectedRows(opnameId, x)))
    /\ UNCHANGED <<balances, movements>>

\* updateOpnameCount: the one UPDATE, through the pool, and the test of its
\* affectedRows (the SELECT of the item that follows changes nothing)
updateOpnameCount(p, opnameId, x, countedQty) ==
    /\ opname' = IF opname[opnameId].items[x].present
                 THEN [opname EXCEPT ![opnameId].items[x] =
                          generatedColumn([@ EXCEPT !.counted = TRUE,
                                                    !.counted_qty = countedQty])]
                 ELSE opname
    /\ Finish(p, countResult(affectedRows(opnameId, x)))
    /\ UNCHANGED <<balances, movements>>

UpdateOpnameCount(p) ==
    /\ pc[p] = "idle"
    /\ \E opnameId \in Sessions, x \in Pairs, countedQty \in CountInputs :
          updateOpnameCount(p, opnameId, x, countedQty)
    /\ UNCHANGED <<allowNegative, pool, cost, catVars, locations, nextOpnameId, nextMovementId, nReq>>

\* --------------------------------------- POST /api/stock/opname/:id/commit
ReqCommitOpname(p) ==
    /\ pc[p] = "idle"
    /\ nextMovementId <= MaxMovementId
    /\ \E opnameId \in Sessions :
          /\ pc' = [pc EXCEPT ![p] = "co_check"]
          /\ req' = [req EXCEPT ![p] = [op |-> "commitOpname", opnameId |-> opnameId]]
          /\ result' = [result EXCEPT ![p] = "none"]
          /\ results' = results
    /\ UNCHANGED <<call, lv, txMov, txBal, txStatus, dbVars>>
    /\ UNCHANGED <<allowNegative, pool, cost, catVars, locations, nextOpnameId, nextMovementId, nReq>>

\* mutant: the SELECT does not test the status
activeSession_anyStatus(s) == opname[s].status # "NONE"

\* SELECT * FROM stock_opname WHERE id = ? AND status = 'ACTIVE' returns a row
activeSession(s) == opname[s].status = "ACTIVE"

\* commitOpname: beginTransaction, the SELECT of the ACTIVE session and the
\* test of opnameRows.length
CO_Check(p) ==
    /\ pc[p] = "co_check"
    /\ IF ~activeSession(req[p].opnameId)
       THEN Throw(p, "InvalidState")
       ELSE /\ Goto(p, "co_items", NoCall,
                    [lv[p] EXCEPT !.opnameId = req[p].opnameId,
                                  !.opname_code = opname[req[p].opnameId].opname_code])
            /\ UNCHANGED <<txMov, txBal, txStatus, dbVars>>
    /\ UNCHANGED <<allowNegative, pool, cost, catVars, locations, nextOpnameId, nextMovementId, nReq>>

\* the rows of SELECT * FROM stock_opname_items WHERE opname_id = ? AND
\* counted_qty IS NOT NULL AND variance_qty != 0
SelectedItems(s) ==
    {[variant_id |-> x[1], location_id |-> x[2],
      system_qty |-> opname[s].items[x].system_qty,
      counted_qty |-> opname[s].items[x].counted_qty,
      variance_qty |-> opname[s].items[x].variance_qty] :
        x \in {y \in Pairs : /\ opname[s].items[y].present
                             /\ opname[s].items[y].counted
                             /\ ~opname[s].items[y].variance_null
                             /\ opname[s].items[y].variance_qty # 0}}

\* ORDER BY variance_qty DESC: every order of the rows that ORDER BY allows
OrderedByVarianceDesc(S) ==
    {sq \in [1..Cardinality(S) -> S] :
        /\ \A i, j \in 1..Cardinality(S) : i # j => sq[i] # sq[j]
        /\ \A i, j \in 1..Cardinality(S) : i < j => sq[i].variance_qty >= sq[j].variance_qty}

\* commitOpname: the SELECT of the counted items with a variance, and the call
\* of createMovement for the first of them
CO_Items(p) ==
    /\ pc[p] = "co_items"
    /\ \E items \in OrderedByVarianceDesc(SelectedItems(lv[p].opnameId)) :
          IF Len(items) > 0
          THEN Goto(p, "cm_check",
                    AdjustmentCall(items[1], lv[p].opnameId, lv[p].opname_code),
                    [lv[p] EXCEPT !.items = items])
          ELSE Goto(p, "co_status", NoCall, lv[p])
    /\ UNCHANGED <<txMov, txBal, txStatus, dbVars>>
    /\ UNCHANGED <<allowNegative, pool, cost, catVars, locations, nextOpnameId, nextMovementId, nReq>>

\* the session row is updated by another open transaction
StatusLocked(p, s) == \E q \in Procs \ {p} : txStatus[q] = s

\* commitOpname: UPDATE stock_opname SET status = 'COMPLETED' WHERE id = ?
CO_Status(p) ==
    /\ pc[p] = "co_status"
    /\ ~StatusLocked(p, lv[p].opnameId)
    /\ txStatus' = [txStatus EXCEPT ![p] = lv[p].opnameId]
    /\ Goto(p, "co_commit", NoCall, lv[p])
    /\ UNCHANGED <<txMov, txBal, dbVars>>
    /\ UNCHANGED <<allowNegative, pool, cost, catVars, locations, nextOpnameId, nextMovementId, nReq>>

\* commitOpname: await connection.commit()
CO_Commit(p) ==
    /\ pc[p] = "co_commit"
    /\ CommitTx(p)
    /\ opname' = [opname EXCEPT ![txStatus[p]].status = "COMPLETED"]
    /\ Finish(p, "ok")
    /\ UNCHANGED <<allowNegative, pool, cost, catVars, locations, nextOpnameId, nextMovementId, nReq>>

\* the status update waits for the row lock and fails
StatusLockTimeout(p) ==
    /\ pc[p] = "co_status"
    /\ StatusLocked(p, lv[p].opnameId)
    /\ Throw(p, "DbError")
    /\ UNCHANGED <<allowNegative, pool, cost, catVars, locations, nextOpnameId, nextMovementId, nReq>>

\* ----------------------------------- updateStockBalance: moving average cost
\* the unit costs a caller passes: none, or a number of currency units
UnitCostInputs == {NullCost} \cup {Cost(100 * c) : c \in (0 - 1)..MaxCost}

\* the avg_cost a row holds: NULL (rows inserted without it) or an amount
AvgCostInputs == {NullCost} \cup {Cost(100 * c) : c \in 0..MaxCost}

\* currentAvgCost = parseFloat(balanceRows[0].avg_cost) || 0
parseFloatOr0(column) == IF column.null THEN 0 ELSE column.v

\* mutant: the test unitCost > 0 is missing
hasCost_notNull(unitCost) == ~unitCost.null

\* if (unitCost && unitCost > 0)
hasCost(unitCost) == ~unitCost.null /\ unitCost.v # 0 /\ unitCost.v > 0

\* mutant: the value of the stock on hand is not weighted by its quantity
totalValue_unweighted(currentQty, currentAvgCost, qty, unitCost) ==
    currentAvgCost + (qty * unitCost)

\* const totalValue = (currentQty * currentAvgCost) + (qty * unitCost)
totalValue(currentQty, currentAvgCost, qty, unitCost) ==
    (currentQty * currentAvgCost) + (qty * unitCost)

\* the quotient as the column avg_cost DECIMAL(15,2) keeps it: the nearest
\* hundredth, a half away from zero
storeDecimal(num, den) ==
    LET n == IF (num < 0) = (den < 0) THEN Abs(num) ELSE 0 - Abs(num)
        d == Abs(den)
    IN  IF n >= 0 THEN ((2 * n) + d) \div (2 * d)
                  ELSE 0 - (((2 * (0 - n)) + d) \div (2 * d))

\* updateStockBalance: the avg_cost it writes
newAvgCost(movementType, currentQty, currentAvgCost, qty, unitCost) ==
    IF movementType = "IN" /\ hasCost(unitCost)
    THEN storeDecimal(totalValue(currentQty, currentAvgCost, qty, unitCost.v),
                      newQty(movementType, currentQty, qty))
    ELSE currentAvgCost

\* updateStockBalance is called and its SELECT returns a row whose quantity
\* is not negative
CostRead ==
    /\ cost.phase \in {"none", "written"}
    /\ \E movementType \in {"IN", "OUT"}, qty \in 1..MaxQty, unitCost \in UnitCostInputs,
          qty_on_hand \in 0..MaxPriorQty, avg_cost \in AvgCostInputs :
          cost' = [NoCost EXCEPT !.phase = "read", !.movementType = movementType,
                                 !.qty = qty, !.unitCost = unitCost,
                                 !.qty_on_hand = qty_on_hand, !.avg_cost = avg_cost]
    /\ UNCHANGED <<allowNegative, pool, catVars, locations, balances, movements, opname, nextOpnameId,
                   nextMovementId, pc, req, call, lv, txMov, txBal, txStatus, result, results, nReq>>

\* updateStockBalance is called and its SELECT returns a row whose quantity
\* is negative, as rows are once ALLOW_NEGATIVE let an OUT movement pass
CostReadNegative ==
    /\ allowNegative
    /\ cost.phase \in {"none", "written"}
    /\ \E movementType \in {"IN", "OUT"}, qty \in 1..MaxQty, unitCost \in UnitCostInputs,
          qty_on_hand \in (0 - MaxPriorQty)..(0 - 1), avg_cost \in AvgCostInputs :
          cost' = [NoCost EXCEPT !.phase = "read", !.movementType = movementType,
                                 !.qty = qty, !.unitCost = unitCost,
                                 !.qty_on_hand = qty_on_hand, !.avg_cost = avg_cost]
    /\ UNCHANGED <<allowNegative, pool, catVars, locations, balances, movements, opname, nextOpnameId,
                   nextMovementId, pc, req, call, lv, txMov, txBal, txStatus, result, results, nReq>>

\* totalValue / newQty with newQty 0: NaN, Infinity or -Infinity
NotFinite == [null |-> FALSE, v |-> 0, finite |-> FALSE]

\* the division of newAvgCost = totalValue / newQty is by zero
dividesByZero(movementType, currentQty, qty, unitCost) ==
    movementType = "IN" /\ hasCost(unitCost) /\ newQty(movementType, currentQty, qty) = 0

\* updateStockBalance: newQty, newAvgCost and the UPDATE of the row
CostWrite ==
    /\ cost.phase = "read"
    /\ LET currentQty == cost.qty_on_hand
           currentAvgCost == parseFloatOr0(cost.avg_cost)
       IN  cost' = [cost EXCEPT
                      !.phase = "written",
                      !.newQty = newQty(cost.movementType, currentQty, cost.qty),
                      !.newAvgCost =
                          IF dividesByZero(cost.movementType, currentQty, cost.qty, cost.unitCost)
                          THEN NotFinite
                          ELSE Cost(newAvgCost(cost.movementType, currentQty,
                                               currentAvgCost, cost.qty, cost.unitCost))]
    /\ UNCHANGED <<allowNegative, pool, catVars, locations, balances, movements, opname, nextOpnameId,
                   nextMovementId, pc, req, call, lv, txMov, txBal, txStatus, result, results, nReq>>

\* ------------------------------- POST /api/stock/movements, any request body
\* the handler as ReqMovement models it, on the bodies ReqMovement leaves out:
\* fields that are absent, not numbers or negative, and a variant named by
\* product_id, color_id and size_id
ReqMovementBody(p, budget) ==
    /\ pc[p] = "idle"
    /\ nReq < budget
    /\ nReq' = nReq + 1
    /\ \E variant_id \in {Undefined, Text} \cup {Number(v) : v \in Variants},
          triple \in BOOLEAN,
          location_id \in {Undefined, Text} \cup {Number(l) : l \in Locs},
          movement_type \in {"", "IN", "OUT"},
          reason_code \in {""} \cup ReqReasons,
          qty \in {Undefined, Text, NumericString(0)} \cup {Number(q) : q \in (0 - 1)..MaxQty} :
          IF ~truthy(location_id) \/ movement_type = "" \/ reason_code = "" \/ ~truthy(qty)
          THEN \* 400: missing required fields
               /\ Finish(p, "BadRequest")
               /\ UNCHANGED <<cv, dbVars>>
          ELSE IF ~truthy(variant_id) /\ triple
          THEN \* MovementService.resolveVariantId({ productId, colorId, sizeId }):
               \* the function reads productName, colorName and sizeName
               /\ pc' = [pc EXCEPT ![p] = "rv_lookup"]
               /\ req' = [req EXCEPT ![p] =
                            [op |-> "movement", product_id |-> 1, color_id |-> 1, size_id |-> 1,
                             location_id |-> location_id, movement_type |-> movement_type,
                             reason_code |-> reason_code, qty |-> qty]]
               /\ cv' = [cv EXCEPT ![p] = [NoCv EXCEPT !.by = "names"]]
               /\ result' = [result EXCEPT ![p] = "none"]
               /\ UNCHANGED <<call, lv, txMov, txBal, txStatus, results, dbVars>>
          ELSE IF ~truthy(variant_id)
          THEN \* 400: either variant_id or product_id+color_id+size_id
               /\ Finish(p, "BadRequest")
               /\ UNCHANGED <<cv, dbVars>>
          ELSE /\ pc' = [pc EXCEPT ![p] = "cm_check"]
               /\ req' = [req EXCEPT ![p] = [op |-> "movement"]]
               /\ call' = [call EXCEPT ![p] =
                             [NoCall EXCEPT !.variantId = parseInt(variant_id),
                                            !.locationId = parseInt(location_id),
                                            !.movementType = movement_type,
                                            !.reasonCode = reason_code,
                                            !.qty = parseInt(qty)]]
               /\ result' = [result EXCEPT ![p] = "none"]
               /\ UNCHANGED <<cv, lv, txMov, txBal, txStatus, results, dbVars>>
    /\ UNCHANGED <<allowNegative, pool, cost, catalog, transactions, card, locations, nextOpnameId,
                   nextMovementId>>

\* ------------------------------------------ MovementService.resolveVariantId
\* const mappedProductName = productMapping[productName] || productName; of
\* the alias table, the entries whose key a request of the model carries
productMapping(productName) ==
    CASE productName = AliasProduct -> CanonicalProduct
      [] OTHER -> productName

\* the ids SELECT pcs.id ... WHERE p.name = ? AND c.name = ? AND s.name = ?
\* returns
variantsByNames(productName, colorName, sizeName) ==
    {v.id : v \in {pcs \in catalog.product_color_sizes :
        \E pcr \in catalog.product_colors, pr \in catalog.products,
           c \in catalog.colors, s \in catalog.sizes :
              /\ pcs.product_color_id = pcr.id
              /\ pcr.product_id = pr.id
              /\ pcr.color_id = c.id
              /\ pcs.size_id = s.id
              /\ pr.name = productName /\ c.name = colorName /\ s.name = sizeName}}

\* the ids SELECT pcs.id ... WHERE pc.product_id = ? AND pc.color_id = ? AND
\* pcs.size_id = ? returns
variantsByIds(productId, colorId, sizeId) ==
    {v.id : v \in {pcs \in catalog.product_color_sizes :
        \E pcr \in catalog.product_colors :
              /\ pcs.product_color_id = pcr.id
              /\ pcr.product_id = productId
              /\ pcr.color_id = colorId
              /\ pcs.size_id = sizeId}}

\* a step of the resolver that leaves the request as it is
Step(p, label) ==
    /\ pc' = [pc EXCEPT ![p] = label]
    /\ UNCHANGED <<req, call, lv, result, results>>

\* the resolver returns to its caller: the import counts a created variant
\* and goes on to look up the location; resolveVariantIdByIds returns the id
Returned(p, id, created) ==
    /\ cv' = [cv EXCEPT ![p] = NoCv]
    /\ IF req[p].op = "import"
       THEN /\ pc' = [pc EXCEPT ![p] = "im_location"]
            /\ call' = [call EXCEPT ![p].variantId = id]
            /\ results' = [results EXCEPT ![p].created = IF created THEN @ + 1 ELSE @]
            /\ UNCHANGED <<req, lv, result, txMov, txBal, txStatus>>
       ELSE /\ req[p].op = "resolveByIds"
            /\ Finish(p, "ok")

\* a name the caller did not pass reaches db.execute as undefined
undefinedParameter(c) == c.productName = "" \/ c.colorName = "" \/ c.sizeName = ""

\* resolveVariantId: the SELECT of the variant by its three names.  With an
\* undefined name the statement is refused (bind parameters must not contain
\* undefined); bound as NULL it would match no row and the INSERT INTO products
\* that follows would fail on name NOT NULL: the call throws either way.
RV_Lookup(p) ==
    /\ pc[p] = "rv_lookup"
    /\ LET c == cv[p]
           existingRows == variantsByNames(c.productName, c.colorName, c.sizeName)
       IN  IF undefinedParameter(c)
           THEN /\ Throw(p, "DbError")
                /\ cv' = [cv EXCEPT ![p] = NoCv]
           ELSE IF existingRows # {}
           THEN /\ Returned(p, CHOOSE id \in existingRows : TRUE, FALSE)
                /\ UNCHANGED dbVars
           ELSE \* createVariantFromNames: getConnection, beginTransaction
                /\ Step(p, "cv_product")
                /\ UNCHANGED <<cv, txMov, txBal, txStatus, dbVars>>
    /\ UNCHANGED <<allowNegative, pool, cost, catalog, transactions, card, locations, nextOpnameId,
                   nextMovementId, nReq>>

\* ------------------------------------ MovementService.resolveVariantIdByIds
ReqResolveByIds(p, budget) ==
    /\ pc[p] = "idle"
    /\ nReq < budget
    /\ nReq' = nReq + 1
    /\ \E productId \in 1..catalog.nextProductId, colorId \in 1..catalog.nextColorId,
          sizeId \in {r.id : r \in catalog.sizes} :
          /\ pc' = [pc EXCEPT ![p] = "rvi_lookup"]
          /\ req' = [req EXCEPT ![p] = [op |-> "resolveByIds"]]
          /\ cv' = [cv EXCEPT ![p] = [NoCv EXCEPT !.by = "ids", !.productId = productId,
                                                 !.colorId = colorId, !.sizeId = sizeId]]
          /\ result' = [result EXCEPT ![p] = "none"]
    /\ UNCHANGED <<call, lv, txMov, txBal, txStatus, results, dbVars>>
    /\ UNCHANGED <<allowNegative, pool, cost, catalog, transactions, card, locations, nextOpnameId,
                   nextMovementId>>

\* resolveVariantIdByIds: the SELECT of the variant by its three ids
RVI_Lookup(p) ==
    /\ pc[p] = "rvi_lookup"
    /\ LET c == cv[p]
           rows == variantsByIds(c.productId, c.colorId, c.sizeId)
       IN  IF rows # {}
           THEN Returned(p, CHOOSE id \in rows : TRUE, FALSE)
           ELSE \* createVariant: getConnection, beginTransaction
                /\ Step(p, "cv_pc")
                /\ UNCHANGED <<cv, txMov, txBal, txStatus>>
    /\ UNCHANGED <<dbVars, allowNegative, pool, cost, catalog, transactions, card, locations,
                   nextOpnameId, nextMovementId, nReq>>

\* ------------------- MovementService.createVariantFromNames, createVariant
\* the id of the row of a catalog table with the name, 0 when there is none
idOfName(rows, name) ==
    IF \E r \in rows : r.name = name THEN (CHOOSE r \in rows : r.name = name).id ELSE 0

\* createVariantFromNames: SELECT id FROM products WHERE name = ? with the
\* mapped name, and INSERT INTO products when it returns no row
CV_Product(p) ==
    /\ pc[p] = "cv_product"
    /\ LET mappedProductName == productMapping(cv[p].productName)
           productId == idOfName(catalog.products, mappedProductName)
       IN  IF productId = 0
           THEN /\ cv' = [cv EXCEPT ![p].productId = catalog.nextProductId,
                                    ![p].products =
                                       {CatalogRow(catalog.nextProductId, mappedProductName)}]
                /\ catalog' = [catalog EXCEPT !.nextProductId = @ + 1]
           ELSE /\ cv' = [cv EXCEPT ![p].productId = productId]
                /\ UNCHANGED catalog
    /\ Step(p, "cv_color")
    /\ UNCHANGED <<txMov, txBal, txStatus, dbVars>>
    /\ UNCHANGED <<allowNegative, pool, cost, transactions, card, locations, nextOpnameId,
                   nextMovementId, nReq>>

\* createVariantFromNames: SELECT id FROM colors WHERE name = ?, and INSERT
\* INTO colors when it returns no row
CV_Color(p) ==
    /\ pc[p] = "cv_color"
    /\ LET colorId == idOfName(catalog.colors, cv[p].colorName)
       IN  IF colorId = 0
           THEN /\ cv' = [cv EXCEPT ![p].colorId = catalog.nextColorId,
                                    ![p].colors =
                                       {CatalogRow(catalog.nextColorId, cv[p].colorName)}]
                /\ catalog' = [catalog EXCEPT !.nextColorId = @ + 1]
           ELSE /\ cv' = [cv EXCEPT ![p].colorId = colorId]
                /\ UNCHANGED catalog
    /\ Step(p, "cv_size")
    /\ UNCHANGED <<txMov, txBal, txStatus, dbVars>>
    /\ UNCHANGED <<allowNegative, pool, cost, transactions, card, locations, nextOpnameId,
                   nextMovementId, nReq>>

\* createVariantFromNames: SELECT id FROM sizes WHERE name = ?, and INSERT
\* INTO sizes when it returns no row
CV_Size(p) ==
    /\ pc[p] = "cv_size"
    /\ LET sizeId == idOfName(catalog.sizes, cv[p].sizeName)
       IN  IF sizeId = 0
           THEN /\ cv' = [cv EXCEPT ![p].sizeId = catalog.nextSizeId,
                                    ![p].sizes = {CatalogRow(catalog.nextSizeId, cv[p].sizeName)}]
                /\ catalog' = [catalog EXCEPT !.nextSizeId = @ + 1]
           ELSE /\ cv' = [cv EXCEPT ![p].sizeId = sizeId]
                /\ UNCHANGED catalog
    /\ Step(p, "cv_pc")
    /\ UNCHANGED <<txMov, txBal, txStatus, dbVars>>
    /\ UNCHANGED <<allowNegative, pool, cost, transactions, card, locations, nextOpnameId,
                   nextMovementId, nReq>>

\* both functions: SELECT id FROM product_colors WHERE product_id = ? AND
\* color_id = ?, and INSERT INTO product_colors when it returns no row
CV_ProductColor(p) ==
    /\ pc[p] = "cv_pc"
    /\ LET pcRows == {r \in catalog.product_colors :
                         r.product_id = cv[p].productId /\ r.color_id = cv[p].colorId}
       IN  IF pcRows = {}
           THEN /\ cv' = [cv EXCEPT ![p].productColorId = catalog.nextProductColorId,
                                    ![p].product_colors =
                                       {ProductColor(catalog.nextProductColorId,
                                                     cv[p].productId, cv[p].colorId)}]
                /\ catalog' = [catalog EXCEPT !.nextProductColorId = @ + 1]
           ELSE /\ cv' = [cv EXCEPT ![p].productColorId = (CHOOSE r \in pcRows : TRUE).id]
                /\ UNCHANGED catalog
    /\ Step(p, "cv_pcs")
    /\ UNCHANGED <<txMov, txBal, txStatus, dbVars>>
    /\ UNCHANGED <<allowNegative, pool, cost, transactions, card, locations, nextOpnameId,
                   nextMovementId, nReq>>

\* UNIQUE KEY unique_product_color_size (product_color_id, size_id)
duplicateVariant(productColorId, sizeId) ==
    \E r \in catalog.product_color_sizes :
        r.product_color_id = productColorId /\ r.size_id = sizeId

\* both functions: INSERT INTO product_color_sizes; on ER_DUP_ENTRY the catch
\* rolls the transaction back and rethrows
CV_Variant(p) ==
    /\ pc[p] = "cv_pcs"
    /\ IF duplicateVariant(cv[p].productColorId, cv[p].sizeId)
       THEN /\ Throw(p, "DbError")
            /\ cv' = [cv EXCEPT ![p] = NoCv]
            /\ UNCHANGED catalog
       ELSE /\ cv' = [cv EXCEPT ![p].variantId = catalog.nextVariantId,
                                ![p].product_color_sizes =
                                   {ProductColorSize(catalog.nextVariantId,
                                                     cv[p].productColorId, cv[p].sizeId)}]
            /\ catalog' = [catalog EXCEPT !.nextVariantId = @ + 1]
            /\ Step(p, "cv_balances")
            /\ UNCHANGED <<txMov, txBal, txStatus, dbVars>>
    /\ UNCHANGED <<allowNegative, pool, cost, transactions, card, locations, nextOpnameId,
                   nextMovementId, nReq>>

\* SELECT id FROM locations: the locations the loop inserts a row for
balanceLocations == locations

\* both functions: SELECT id FROM locations and, for each row, INSERT INTO
\* stock_balances (variant_id, location_id, qty_on_hand) VALUES (?, ?, 0); the
\* rows are of the new variant, which no other request can name yet
CV_Balances(p) ==
    /\ pc[p] = "cv_balances"
    /\ cv' = [cv EXCEPT ![p].balances = balanceLocations]
    /\ Step(p, "cv_commit")
    /\ UNCHANGED <<txMov, txBal, txStatus, dbVars>>
    /\ UNCHANGED <<allowNegative, pool, cost, catalog, transactions, card, locations, nextOpnameId,
                   nextMovementId, nReq>>

\* both functions: await connection.commit(); the catalog rows and the
\* balance rows of the new variant become visible together
CV_Commit(p) ==
    /\ pc[p] = "cv_commit"
    /\ catalog' = [catalog EXCEPT
                      !.products = @ \cup cv[p].products,
                      !.colors = @ \cup cv[p].colors,
                      !.sizes = @ \cup cv[p].sizes,
                      !.product_colors = @ \cup cv[p].product_colors,
                      !.product_color_sizes = @ \cup cv[p].product_color_sizes]
    /\ balances' = [x \in DOMAIN balances \cup ({cv[p].variantId} \X Locs) |->
                      IF x[1] = cv[p].variantId
                      THEN IF x[2] \in cv[p].balances THEN Row(0) ELSE NoRow
                      ELSE balances[x]]
    /\ Returned(p, cv[p].variantId, TRUE)
    /\ UNCHANGED <<movements, opname>>
    /\ UNCHANGED <<allowNegative, pool, cost, transactions, card, locations, nextOpnameId,
                   nextMovementId, nReq>>


\* ------------------------------------------- POST /api/stock/import-csv
\* the cells a record of the model carries: a product name (none, one that
\* resolves to the seeded variant, an alias of the alias table), one of
\* two location names, a quantity (absent, not a number, or a number)
CsvLocations == {"display", "lemari"}
CsvQuantities == {Undefined, Text} \cup {NumericString(q) : q \in (0 - 1)..MaxQty}
CsvRecords ==
    [product_name : {""} \cup ProductNames, color_name : {SeedColor}, size_name : {SeedSize},
     location_name : CsvLocations, quantity : CsvQuantities]

\* the sequences of 1 to n elements of S
RECURSIVE SeqsUpTo(_, _)
SeqsUpTo(S, n) ==
    IF n = 0 THEN {}
    ELSE LET shorter == SeqsUpTo(S, n - 1)
         IN  {<<e>> : e \in S} \cup {Append(sq, e) : sq \in shorter, e \in S}

\* refCode: 'CSV_IMPORT' | 'CSV_SET'
CsvRef(code) == [kind |-> code, n |-> 0]

\* the handler up to its loop: the file is parsed into records (an upload
\* without records is answered 400) and results is initialised
ReqImport(p, budget) ==
    /\ pc[p] = "idle"
    /\ nReq < budget
    /\ nReq' = nReq + 1
    /\ \E mode \in {"add", "set"}, records \in SeqsUpTo(CsvRecords, MaxRecords) :
          /\ pc' = [pc EXCEPT ![p] = "im_row"]
          /\ req' = [req EXCEPT ![p] = [op |-> "import", mode |-> mode, records |-> records]]
          /\ lv' = [lv EXCEPT ![p] = [NoLv EXCEPT !.items = records]]
          /\ results' = [results EXCEPT ![p] = NoResults]
          /\ result' = [result EXCEPT ![p] = "none"]
    /\ UNCHANGED <<call, txMov, txBal, txStatus, dbVars>>
    /\ UNCHANGED <<allowNegative, pool, cost, catVars, locations, nextOpnameId, nextMovementId>>

\* if (!productName || !colorName || !sizeName || !locationName ||
\*     quantity === undefined)
missingCells(row) ==
    \/ row.product_name = "" \/ row.color_name = "" \/ row.size_name = ""
    \/ row.location_name = "" \/ row.quantity = Undefined

\* if (isNaN(qty) || qty < 0)
invalidQuantity(quantity) == isNaN(quantity) \/ parseInt(quantity) < 0

\* the loop body up to its first await: the two tests of the record, and the
\* call of resolveVariantId with its three names
IM_Row(p) ==
    /\ pc[p] = "im_row"
    /\ LET row == Head(lv[p].items) IN
       IF missingCells(row)
       THEN /\ RowError(p, "MissingFields")
            /\ UNCHANGED cv
       ELSE IF invalidQuantity(row.quantity)
       THEN /\ RowError(p, "InvalidQuantity")
            /\ UNCHANGED cv
       ELSE /\ pc' = [pc EXCEPT ![p] = "rv_lookup"]
            /\ call' = [call EXCEPT ![p] = [NoCall EXCEPT !.qty = parseInt(row.quantity)]]
            /\ cv' = [cv EXCEPT ![p] = [NoCv EXCEPT !.by = "names",
                                                   !.productName = row.product_name,
                                                   !.colorName = row.color_name,
                                                   !.sizeName = row.size_name]]
            /\ UNCHANGED <<req, lv, result, results>>
    /\ UNCHANGED <<txMov, txBal, txStatus, dbVars>>
    /\ UNCHANGED <<allowNegative, pool, cost, catalog, transactions, card, locations, nextOpnameId,
                   nextMovementId, nReq>>

\* locations.name, lower-cased, of the two seeded rows
locationName(id) == IF id = 1 THEN "display area" ELSE "storage cabinet"

\* locationMapping[locationName.toLowerCase()] || locationName.toLowerCase()
locationMapping(name) ==
    CASE name = "display" -> "display area"
      [] name = "lemari" -> "storage cabinet"
      [] OTHER -> name

\* locations.find(loc => loc.name.toLowerCase() === mappedLocationName): its
\* id, 0 when there is none
findLocation(name) ==
    IF \E l \in locations : locationName(l) = locationMapping(name)
    THEN CHOOSE l \in locations : locationName(l) = locationMapping(name)
    ELSE 0

\* the payload of the movement the import books for a record
ImportCall(c, locationId, qty, refCode) ==
    [c EXCEPT !.locationId = locationId, !.movementType = "IN",
              !.reasonCode = "ADJUSTMENT_IN", !.qty = qty, !.refCode = CsvRef(refCode)]

\* SELECT * FROM locations and the search of the record's location; in mode
\* 'add' the call of createMovement for a quantity above zero
IM_Location(p) ==
    /\ pc[p] = "im_location"
    /\ LET row == Head(lv[p].items)
           location == findLocation(row.location_name)
       IN  IF location = 0
           THEN RowError(p, "UnknownLocation")
           ELSE IF req[p].mode = "add"
           THEN IF call[p].qty > 0
                THEN Goto(p, "cm_check",
                          ImportCall(call[p], location, call[p].qty, "CSV_IMPORT"), lv[p])
                ELSE NextRow(p, Imported(p))
           ELSE Goto(p, "im_balance", [call[p] EXCEPT !.locationId = location], lv[p])
    /\ UNCHANGED <<txMov, txBal, txStatus, dbVars>>
    /\ UNCHANGED <<allowNegative, pool, cost, catVars, locations, nextOpnameId, nextMovementId, nReq>>

\* InventoryService.getStockBalance: const result = await db.query(...);
\* return result.length > 0 ? result[0].qty_on_hand : 0.  result is the pair
\* [rows, fields]: its length is 2 and result[0], the array of rows, has no
\* property qty_on_hand
getStockBalance(x) == Undefined

\* qty - (currentBalance || 0)
difference(qty, currentBalance) ==
    qty - (IF truthy(currentBalance) THEN currentBalance.n ELSE 0)

\* mode 'set': the call of getStockBalance and, for a difference other than
\* zero, of createMovement
IM_Balance(p) ==
    /\ pc[p] = "im_balance"
    /\ LET c == call[p]
           d == difference(c.qty, getStockBalance(<<c.variantId, c.locationId>>))
       IN  IF d # 0
           THEN Goto(p, "cm_check",
                     [ImportCall(c, c.locationId, Abs(d), "CSV_SET") EXCEPT
                         !.movementType = IF d > 0 THEN "IN" ELSE "OUT",
                         !.reasonCode = IF d > 0 THEN "ADJUSTMENT_IN" ELSE "ADJUSTMENT_OUT"],
                     lv[p])
           ELSE NextRow(p, Imported(p))
    /\ UNCHANGED <<txMov, txBal, txStatus, dbVars>>
    /\ UNCHANGED <<allowNegative, pool, cost, catVars, locations, nextOpnameId, nextMovementId, nReq>>

\* -------------------------------------------- POST /api/transactions/create
\* an element of items or free_items: whether it has a product_id, its
\* quantity, and how it names color and size (by color_id and size_id, by
\* names that have a row, or by nothing that yields both ids)
SaleItems(list) ==
    [list : {list}, product_id : {0, 1}, quantity : QtyInputs,
     colorSize : {"ids", "names", "unknown"}]

\* the elements the loops of a request go through: items and then free_items
\* for a sale, items for a gift, none for an expense
stockItems(type, items, free_items) ==
    CASE type = "penjualan" -> items \o free_items
      [] type = "gift" -> items
      [] OTHER -> <<>>

\* getConnection, beginTransaction and the tests that answer 400
ReqSale(p, budget) ==
    /\ pc[p] = "idle"
    /\ nReq < budget
    /\ nReq' = nReq + 1
    /\ \E type \in {"", "penjualan", "gift", "pengeluaran", "other"},
          items \in {<<>>} \cup SeqsUpTo(SaleItems("items"), MaxItems),
          free_items \in {<<>>} \cup SeqsUpTo(SaleItems("free_items"), MaxItems - 1),
          complete \in BOOLEAN :
          /\ Len(items) + Len(free_items) <= MaxItems
          /\ IF \/ type \in {"", "other"}
                \/ type \in {"penjualan", "gift"} /\ items = <<>>
                \* pic_sales, or a field of an expense, is missing
                \/ type \in {"penjualan", "pengeluaran"} /\ ~complete
             THEN /\ Finish(p, "BadRequest")
                  /\ UNCHANGED dbVars
             ELSE /\ pc' = [pc EXCEPT ![p] = "tx_insert"]
                  /\ req' = [req EXCEPT ![p] =
                               [op |-> "sale", type |-> type,
                                items |-> stockItems(type, items, free_items)]]
                  /\ result' = [result EXCEPT ![p] = "none"]
                  /\ UNCHANGED <<call, lv, txMov, txBal, txStatus, results, dbVars>>
    /\ UNCHANGED <<allowNegative, pool, cost, catVars, locations, nextOpnameId, nextMovementId>>

\* INSERT INTO transactions on the connection; the row is the transaction's
\* until TX_Commit
TX_Insert(p) ==
    /\ pc[p] = "tx_insert"
    /\ IF req[p].items = <<>>
       THEN Goto(p, "tx_commit", NoCall, lv[p])
       ELSE Goto(p, "tx_item", NoCall, [lv[p] EXCEPT !.items = req[p].items])
    /\ UNCHANGED <<txMov, txBal, txStatus, dbVars>>
    /\ UNCHANGED <<allowNegative, pool, cost, catVars, locations, nextOpnameId, nextMovementId, nReq>>

\* if (item.product_id && item.quantity > 0), if (freeItem.product_id)
hasStock(item) ==
    IF item.list = "items" THEN item.product_id # 0 /\ item.quantity > 0
    ELSE item.product_id # 0

\* if (colorId && sizeId), after the SELECTs of colors and sizes by name
hasColorAndSize(item) == item.colorSize \in {"ids", "names"}

\* one pass of a loop over items or free_items, up to the call
\* MovementService.resolveVariantId({ productId, colorId, sizeId }) in its
\* try block: the function reads productName, colorName and sizeName
TX_Item(p) ==
    /\ pc[p] = "tx_item"
    /\ LET item == Head(lv[p].items) IN
       IF hasStock(item) /\ hasColorAndSize(item)
       THEN /\ Step(p, "rv_lookup")
            /\ cv' = [cv EXCEPT ![p] = [NoCv EXCEPT !.by = "names"]]
       ELSE /\ NextItem(p)
            /\ UNCHANGED cv
    /\ UNCHANGED <<txMov, txBal, txStatus, dbVars>>
    /\ UNCHANGED <<allowNegative, pool, cost, catalog, transactions, card, locations, nextOpnameId,
                   nextMovementId, nReq>>

\* await connection.commit() and the answer 201
TX_Commit(p) ==
    /\ pc[p] = "tx_commit"
    /\ transactions' = transactions + 1
    /\ CommitTx(p)
    /\ Finish(p, "ok")
    /\ UNCHANGED <<opname, allowNegative, pool, cost, catalog, cv, card, locations, nextOpnameId,
                   nextMovementId, nReq>>

\* ------------------------------------------- DELETE /api/stock/variant/:id
\* parseInt(req.params.id) and the test !variantId.  START TRANSACTION, COMMIT
\* and ROLLBACK go through db.query: each statement of the handler takes a
\* connection of the pool, so the statements are modelled as taking effect one
\* by one.  ids are the ids the requests name.
ReqDeleteVariant(p, ids) ==
    /\ pc[p] = "idle"
    /\ \E variantId \in ids :
          IF variantId = 0
          THEN /\ Finish(p, "BadRequest")
               /\ UNCHANGED dbVars
          ELSE /\ pc' = [pc EXCEPT ![p] = "dv_check"]
               /\ req' = [req EXCEPT ![p] = [op |-> "deleteVariant", variantId |-> variantId]]
               /\ result' = [result EXCEPT ![p] = "none"]
               /\ UNCHANGED <<call, lv, txMov, txBal, txStatus, results, dbVars>>
    /\ UNCHANGED <<allowNegative, pool, cost, catVars, locations, nextOpnameId, nextMovementId, nReq>>

\* SELECT * FROM product_color_sizes WHERE id = ?; 404 when there is no row
DV_Check(p) ==
    /\ pc[p] = "dv_check"
    /\ IF req[p].variantId \notin VariantIds
       THEN Finish(p, "NotFound")
       ELSE /\ Step(p, "dv_items")
            /\ UNCHANGED <<txMov, txBal, txStatus>>
    /\ UNCHANGED dbVars
    /\ UNCHANGED <<allowNegative, pool, cost, catVars, locations, nextOpnameId, nextMovementId, nReq>>

\* DELETE FROM stock_opname_items WHERE variant_id = ?
DV_Items(p) ==
    /\ pc[p] = "dv_items"
    /\ opname' = [s \in Sessions |->
                    [opname[s] EXCEPT !.items =
                        [x \in Pairs |-> IF x[1] = req[p].variantId THEN NoItem ELSE @[x]]]]
    /\ Step(p, "dv_movements")
    /\ UNCHANGED <<txMov, txBal, txStatus, balances, movements>>
    /\ UNCHANGED <<allowNegative, pool, cost, catVars, locations, nextOpnameId, nextMovementId, nReq>>

\* the rows DELETE FROM stock_movements WHERE variant_id = ? leaves
RECURSIVE withoutVariant(_, _)
withoutVariant(rows, variantId) ==
    IF rows = <<>> THEN <<>>
    ELSE IF Head(rows).variant_id = variantId
    THEN withoutVariant(Tail(rows), variantId)
    ELSE <<Head(rows)>> \o withoutVariant(Tail(rows), variantId)

\* DELETE FROM stock_movements WHERE variant_id = ?
DV_Movements(p) ==
    /\ pc[p] = "dv_movements"
    /\ movements' = withoutVariant(movements, req[p].variantId)
    /\ Step(p, "dv_balances")
    /\ UNCHANGED <<txMov, txBal, txStatus, balances, opname>>
    /\ UNCHANGED <<allowNegative, pool, cost, catVars, locations, nextOpnameId, nextMovementId, nReq>>

\* DELETE FROM stock_balances WHERE variant_id = ?
DV_Balances(p) ==
    /\ pc[p] = "dv_balances"
    /\ balances' = [x \in DOMAIN balances |->
                      IF x[1] = req[p].variantId THEN NoRow ELSE balances[x]]
    /\ Step(p, "dv_variant")
    /\ UNCHANGED <<txMov, txBal, txStatus, movements, opname>>
    /\ UNCHANGED <<allowNegative, pool, cost, catVars, locations, nextOpnameId, nextMovementId, nReq>>

\* DELETE FROM product_color_sizes WHERE id = ?, which cascades to the rows
\* of stock_movements and stock_balances inserted for the variant since the
\* statements above; 500 when affectedRows is 0
DV_Variant(p) ==
    /\ pc[p] = "dv_variant"
    /\ LET v == req[p].variantId IN
       /\ catalog' = [catalog EXCEPT !.product_color_sizes = {r \in @ : r.id # v}]
       /\ movements' = withoutVariant(movements, v)
       /\ balances' = [x \in DOMAIN balances |-> IF x[1] = v THEN NoRow ELSE balances[x]]
       /\ Finish(p, IF v \in VariantIds THEN "ok" ELSE "DbError")
    /\ UNCHANGED <<opname, cv, transactions, card>>
    /\ UNCHANGED <<allowNegative, pool, cost, locations, nextOpnameId, nextMovementId, nReq>>

\* ------------------------------------------- InventoryService.getStockCard
\* created_at of the rows of stock_movements, and the dates a request names
CardTimes == {1, 2}

\* the rows of stock_movements of the variant, in the order of their ids
CardRows ==
    [created_at : CardTimes, location_id : Locs, movement_type : {"IN", "OUT"}, qty : 1..MaxQty]
CardLedgers == {<<>>} \cup SeqsUpTo(CardRows, MaxCardLen)

\* the row of the table with its id
WithIds(ledger) ==
    [i \in 1..Len(ledger) |->
        [id |-> i, created_at |-> ledger[i].created_at, location_id |-> ledger[i].location_id,
         movement_type |-> ledger[i].movement_type, qty |-> ledger[i].qty]]

\* mutant: the quantity of an OUT movement is added
qtyChange_unsigned(movement) == movement.qty

\* const qtyChange = movement.movement_type === 'IN' ? movement.qty : -movement.qty
\* and CASE WHEN movement_type = 'IN' THEN qty ELSE -qty END
qtyChange(movement) == IF movement.movement_type = "IN" THEN movement.qty ELSE 0 - movement.qty

\* SUM(CASE ... END) over the rows
RECURSIVE sumQtyChange(_)
sumQtyChange(rows) ==
    IF rows = <<>> THEN 0 ELSE qtyChange(Head(rows)) + sumQtyChange(Tail(rows))

\* option decimalNumbers of the pool that db.js creates: a DECIMAL value,
\* which SUM returns, reaches the code as a number
decimalNumbers == TRUE

\* a DECIMAL value as db.execute returns it
decimalColumn(n) == IF decimalNumbers THEN Number(n) ELSE NumericString(n)

\* WHERE variant_id = ? AND location_id = ? AND created_at < ?
openingRows(rows, locationId, fromDate) ==
    LET Test(m) == m.location_id = locationId /\ m.created_at < fromDate
    IN  SelectSeq(rows, Test)

\* let openingQty = 0; if (fromDate) { ... openingQty =
\* openingRows[0].opening_qty || 0 }, opening_qty being COALESCE(SUM, 0)
openingQty(rows, locationId, fromDate) ==
    IF fromDate = 0 THEN Number(0)
    ELSE LET opening_qty == decimalColumn(sumQtyChange(openingRows(rows, locationId, fromDate)))
         IN  IF truthy(opening_qty) THEN opening_qty ELSE Number(0)

\* WHERE sm.variant_id = ? AND sm.location_id = ?, AND sm.created_at >= ? if
\* (fromDate), AND sm.created_at <= ? if (toDate)
windowRows(rows, locationId, fromDate, toDate) ==
    LET Test(m) == /\ m.location_id = locationId
                   /\ fromDate # 0 => m.created_at >= fromDate
                   /\ toDate # 0 => m.created_at <= toDate
    IN  SelectSeq(rows, Test)

\* ORDER BY sm.created_at ASC, sm.id ASC, on rows in the order of their ids
RECURSIVE orderBy(_, _)
orderBy(rows, times) ==
    IF times = {} THEN <<>>
    ELSE LET first == CHOOSE t \in times : \A u \in times : t <= u
             Test(m) == m.created_at = first
         IN  SelectSeq(rows, Test) \o orderBy(rows, times \ {first})

\* LIMIT ?, if (limit)
limitRows(rows, limit) ==
    IF limit # 0 /\ limit < Len(rows) THEN SubSeq(rows, 1, limit) ELSE rows

\* runningBalance += qtyChange: the sum of two numbers; a string on the left
\* makes it a concatenation
plusAssign(runningBalance, change) ==
    IF runningBalance.t = "number" THEN Number(runningBalance.n + change) ELSE Text

\* movements.map(movement => ({ ...movement, qty_change, running_balance }))
RECURSIVE movementsWithBalance(_, _)
movementsWithBalance(rows, runningBalance) ==
    IF rows = <<>> THEN <<>>
    ELSE LET movement == Head(rows)
             balance == plusAssign(runningBalance, qtyChange(movement))
         IN  <<[id |-> movement.id, created_at |-> movement.created_at,
                movement_type |-> movement.movement_type, qty |-> movement.qty,
                qty_change |-> qtyChange(movement), running_balance |-> balance]>>
             \o movementsWithBalance(Tail(rows), balance)

\* the route calls getStockCard on a database whose stock_balances row of the
\* location holds the signed sum of the location's movements
CardRequest ==
    /\ card.phase = "none"
    /\ \E productId \in 1..catalog.nextProductId, locationId \in Locs, ledger \in CardLedgers,
          fromDate \in {0} \cup CardTimes, toDate \in {0} \cup CardTimes,
          limit \in 0..MaxCardLen :
          LET Test(m) == m.location_id = locationId IN
          card' = [NoCard EXCEPT !.phase = "called", !.productId = productId,
                                 !.locationId = locationId, !.ledger = ledger,
                                 !.qty_on_hand = sumQtyChange(SelectSeq(ledger, Test)),
                                 !.fromDate = fromDate, !.toDate = toDate, !.limit = limit]
    /\ UNCHANGED <<allowNegative, pool, cost, catalog, cv, transactions, locations, balances, movements,
                   opname, nextOpnameId, nextMovementId, pc, req, call, lv, txMov, txBal,
                   txStatus, result, results, nReq>>

\* getStockCard from the SELECT of the variant to its return
CardReturn ==
    /\ card.phase = "called"
    /\ IF variantsByIds(card.productId, 1, 1) = {}
       THEN \* throw new Error('Variant not found')
            card' = [card EXCEPT !.phase = "error"]
       ELSE LET rows == WithIds(card.ledger)
                opening == openingQty(rows, card.locationId, card.fromDate)
                selected == limitRows(orderBy(windowRows(rows, card.locationId, card.fromDate,
                                                         card.toDate), CardTimes),
                                      card.limit)
            IN  card' = [card EXCEPT !.phase = "returned",
                                     !.opening_qty = opening,
                                     !.movements = movementsWithBalance(selected, opening),
                                     !.current_qty = card.qty_on_hand]
    /\ UNCHANGED <<allowNegative, pool, cost, catalog, cv, transactions, locations, balances, movements,
                   opname, nextOpnameId, nextMovementId, pc, req, call, lv, txMov, txBal,
                   txStatus, result, results, nReq>>

\* ------------------------------------- the functions that take a connection
\* const connection = await db.getConnection(); try { await
\* connection.beginTransaction(); ... await connection.commit(); ... }
\* catch (error) { await connection.rollback(); ... } finally {
\* connection.release(); }
Functions == {"transfer", "createVariant", "createVariantFromNames", "startOpname",
              "commitOpname", "create"}

notPool == <<allowNegative, cost, locations, balances, movements, opname, nextOpnameId,
             nextMovementId, pc, req, call, lv, txMov, txBal, txStatus, result, nReq,
             catalog, cv, results, transactions, card>>

\* the step of a function that holds a connection
Hold(p, phase, open) ==
    /\ pool' = [pool EXCEPT !.hold[p].phase = phase,
                            !.open[pool.hold[p].connection] = open]
    /\ UNCHANGED notPool

\* db.getConnection(): a connection no function holds
getConnection(p) ==
    /\ pool.hold[p].phase \in {"none", "released"}
    /\ \E fn \in Functions, c \in Connections :
          /\ \A q \in Procs : pool.hold[q].connection # c
          /\ pool' = [pool EXCEPT !.hold[p] = [NoHold EXCEPT !.fn = fn, !.phase = "taken",
                                                             !.connection = c]]
    /\ UNCHANGED notPool

\* await connection.beginTransaction(), the first statement of the try block
beginTransaction(p) ==
    /\ pool.hold[p].phase = "taken"
    /\ Hold(p, "try", TRUE)

\* the function returns from inside the try block before it commits
returnsInTry(fn) == fn = "create"

\* POST /create: return res.status(400).json(...) for a missing field, a sale
\* or gift without items, an unknown type
earlyReturn(p) ==
    /\ pool.hold[p].phase = "try"
    /\ returnsInTry(pool.hold[p].fn)
    /\ Hold(p, "finally", pool.open[pool.hold[p].connection])

\* a statement of the try block throws
throws(p) ==
    /\ pool.hold[p].phase = "try"
    /\ Hold(p, "catch", pool.open[pool.hold[p].connection])

\* await connection.commit()
commit(p) ==
    /\ pool.hold[p].phase = "try"
    /\ Hold(p, "committed", FALSE)

\* the function returns (answers) after its commit
returns(p) ==
    /\ pool.hold[p].phase = "committed"
    /\ Hold(p, "finally", pool.open[pool.hold[p].connection])

\* startOpname: the SELECT of the session after the commit throws
throwsAfterCommit(p) ==
    /\ pool.hold[p].phase = "committed"
    /\ pool.hold[p].fn = "startOpname"
    /\ Hold(p, "catch", pool.open[pool.hold[p].connection])

\* catch (error) { await connection.rollback(); ... }
rollback(p) ==
    /\ pool.hold[p].phase = "catch"
    /\ Hold(p, "finally", FALSE)

\* finally { connection.release(); }
release(p) ==
    /\ pool.hold[p].phase = "finally"
    /\ pool' = [pool EXCEPT !.hold[p] =
                    [@ EXCEPT !.phase = "released", !.connection = 0,
                              !.releases = @ + 1,
                              !.releasedOpen = pool.open[pool.hold[p].connection]]]
    /\ UNCHANGED notPool

\* ----------------------------------------------------------- specifications
\* movements and transfers, requests overlapping
Next ==
    \/ \E p \in Procs : ReqMovement(p, MaxOps)
    \/ \E p \in Procs : ReqTransfer(p, MaxOps)
    \/ \E p \in Procs : TransferBegin(p)
    \/ \E p \in Procs : CM_Check(p)
    \/ \E p \in Procs : CM_Insert(p)
    \/ \E p \in Procs : CM_Read(p)
    \/ \E p \in Procs : CM_Write(p)
    \/ \E p \in Procs : LockTimeout(p)
    \/ \E p \in Procs : TransferCommit(p)
    \/ AddLocation

Spec == Init /\ [][Next]_vars

\* the same with the smaller request budget
RaceNext ==
    \/ \E p \in Procs : ReqMovement(p, MaxRaceOps)
    \/ \E p \in Procs : ReqTransfer(p, MaxRaceOps)
    \/ \E p \in Procs : TransferBegin(p)
    \/ \E p \in Procs : CM_Check(p)
    \/ \E p \in Procs : CM_Insert(p)
    \/ \E p \in Procs : CM_Read(p)
    \/ \E p \in Procs : CM_Write(p)
    \/ \E p \in Procs : LockTimeout(p)
    \/ \E p \in Procs : TransferCommit(p)
    \/ AddLocation

SpecRace == Init /\ [][RaceNext]_vars

\* movements and transfers, one request at a time: the second slot never
\* accepts a request
SeqNext ==
    \/ ReqMovement(1, MaxSeqOps)
    \/ ReqTransfer(1, MaxSeqOps)
    \/ TransferBegin(1)
    \/ CM_Check(1)
    \/ CM_Insert(1)
    \/ CM_Read(1)
    \/ CM_Write(1)
    \/ TransferCommit(1)
    \/ AddLocation

SpecSeq == Init /\ [][SeqNext]_vars

\* movements and the opname workflow, one request at a time
OpnameNext ==
    \/ ReqMovement(1, MaxOpnameOps)
    \/ CM_Check(1)
    \/ CM_Insert(1)
    \/ CM_Read(1)
    \/ CM_Write(1)
    \/ ReqStartOpname(1)
    \/ SO_Insert(1)
    \/ SO_Snapshot(1)
    \/ SO_Commit(1)
    \/ UpdateOpnameCount(1)
    \/ ReqCommitOpname(1)
    \/ CO_Check(1)
    \/ CO_Items(1)
    \/ CO_Status(1)
    \/ CO_Commit(1)
    \/ AddLocation

SpecOpname == Init /\ [][OpnameNext]_vars

\* the opname workflow with commit requests overlapping each other and a
\* movement request
CommitRaceNext ==
    \/ ReqMovement(1, MaxCommitRaceOps)
    \/ \E p \in Procs : CM_Check(p)
    \/ \E p \in Procs : CM_Insert(p)
    \/ \E p \in Procs : CM_Read(p)
    \/ \E p \in Procs : CM_Write(p)
    \/ \E p \in Procs : LockTimeout(p)
    \/ ReqStartOpname(1)
    \/ SO_Insert(1)
    \/ SO_Snapshot(1)
    \/ SO_Commit(1)
    \/ UpdateOpnameCount(1)
    \/ \E p \in Procs : ReqCommitOpname(p)
    \/ \E p \in Procs : CO_Check(p)
    \/ \E p \in Procs : CO_Items(p)
    \/ \E p \in Procs : CO_Status(p)
    \/ \E p \in Procs : CO_Commit(p)
    \/ \E p \in Procs : StatusLockTimeout(p)

SpecCommitRace == Init /\ [][CommitRaceNext]_vars

\* updateStockBalance on its own, on every row and call within the bounds
CostNext ==
    \/ CostRead
    \/ CostWrite

SpecCost == Init /\ [][CostNext]_vars

\* the same, on the rows with a negative quantity as well
CostNegativeNext ==
    \/ CostRead
    \/ CostReadNegative
    \/ CostWrite

SpecCostNegative == Init /\ [][CostNegativeNext]_vars


\* POST /movements with any request body, one request at a time
RouteNext ==
    \/ ReqMovementBody(1, MaxRouteOps)
    \/ RV_Lookup(1)
    \/ CM_Check(1)
    \/ CM_Insert(1)
    \/ CM_Read(1)
    \/ CM_Write(1)

SpecRoute == Init /\ [][RouteNext]_vars

\* the CSV import and the two variant resolvers in the first slot, with
\* requests that delete a variant and add a location beside them
ImportNext ==
    \/ ReqImport(1, MaxImportOps)
    \/ IM_Row(1)
    \/ RV_Lookup(1)
    \/ ReqResolveByIds(1, MaxImportOps)
    \/ RVI_Lookup(1)
    \/ CV_Product(1)
    \/ CV_Color(1)
    \/ CV_Size(1)
    \/ CV_ProductColor(1)
    \/ CV_Variant(1)
    \/ CV_Balances(1)
    \/ CV_Commit(1)
    \/ IM_Location(1)
    \/ IM_Balance(1)
    \/ CM_Check(1)
    \/ CM_Insert(1)
    \/ CM_Read(1)
    \/ CM_Write(1)
    \/ ReqDeleteVariant(2, VariantIds)
    \/ DV_Check(2)
    \/ DV_Items(2)
    \/ DV_Movements(2)
    \/ DV_Balances(2)
    \/ DV_Variant(2)
    \/ AddLocation

SpecImport == Init /\ [][ImportNext]_vars

\* POST /create of the transactions router, one request at a time
SaleNext ==
    \/ ReqSale(1, MaxSaleOps)
    \/ TX_Insert(1)
    \/ TX_Item(1)
    \/ RV_Lookup(1)
    \/ TX_Commit(1)

SpecSale == Init /\ [][SaleNext]_vars

\* getStockCard on its own, on every ledger and call within the bounds
CardNext ==
    \/ CardRequest
    \/ CardReturn

SpecCard == Init /\ [][CardNext]_vars

\* movements, transfers and the delete of a variant, one request at a time
LedgerNext ==
    \/ ReqMovement(1, MaxLedgerOps)
    \/ ReqTransfer(1, MaxLedgerOps)
    \/ TransferBegin(1)
    \/ CM_Check(1)
    \/ CM_Insert(1)
    \/ CM_Read(1)
    \/ CM_Write(1)
    \/ TransferCommit(1)
    \/ ReqDeleteVariant(1, 0..catalog.nextVariantId)
    \/ DV_Check(1)
    \/ DV_Items(1)
    \/ DV_Movements(1)
    \/ DV_Balances(1)
    \/ DV_Variant(1)
    \/ AddLocation

SpecLedger == Init /\ [][LedgerNext]_vars


\* movements overlapping on different (variant, location) pairs: request slot
\* p serves the movements against location p; an opname session is started
\* beside them
PairsNext ==
    \/ \E p \in Procs : ReqMovementAt(p, MaxPairOps, {p})
    \/ \E p \in Procs : CM_Check(p)
    \/ \E p \in Procs : CM_Insert(p)
    \/ \E p \in Procs : CM_Read(p)
    \/ \E p \in Procs : CM_Write(p)
    \/ ReqStartOpname(1)
    \/ SO_Insert(1)
    \/ SO_Snapshot(1)
    \/ SO_Commit(1)
    \/ AddLocation

SpecPairs == Init /\ [][PairsNext]_vars

\* the six functions that take a connection, on their own
PoolNext ==
    \/ \E p \in Procs : getConnection(p)
    \/ \E p \in Procs : beginTransaction(p)
    \/ \E p \in Procs : earlyReturn(p)
    \/ \E p \in Procs : throws(p)
    \/ \E p \in Procs : commit(p)
    \/ \E p \in Procs : returns(p)
    \/ \E p \in Procs : throwsAfterCommit(p)
    \/ \E p \in Procs : rollback(p)
    \/ \E p \in Procs : release(p)

SpecPool == Init /\ [][PoolNext]_vars

\* ------------------------------------------------------------------ claims
Quiescent == \A p \in Procs : pc[p] = "idle"

\* qty_on_hand of the pair, 0 when it has no row
BalanceQty(x) == IF balances[x].exists THEN balances[x].qty_on_hand ELSE 0

Signed(m) == IF m.movement_type = "IN" THEN m.qty ELSE 0 - m.qty

RECURSIVE LedgerSum(_, _)
LedgerSum(ledger, x) ==
    IF ledger = <<>> THEN 0
    ELSE LET m == ledger[Len(ledger)] IN
         (IF <<m.variant_id, m.location_id>> = x THEN Signed(m) ELSE 0)
            + LedgerSum(SubSeq(ledger, 1, Len(ledger) - 1), x)

\* C1: whenever no request is in flight, the cached quantity of every
\* (variant, location) equals the signed sum of the committed movements of
\* that pair.
C1_LedgerBalanceConsistency ==
    Quiescent => \A x \in Pairs : BalanceQty(x) = LedgerSum(movements, x)

\* C2: with ALLOW_NEGATIVE off no committed balance quantity is negative.
C2_NoNegativeBalance ==
    ~allowNegative => \A x \in Pairs : BalanceQty(x) >= 0

\* C3: two movement requests, one per request slot, on the same pair that
\* both succeeded leave the initial quantity (0) plus both signed quantities,
\* however their balance reads and writes interleaved.
C3_NoLostUpdate ==
    (/\ Quiescent
     /\ nReq = 2
     /\ \A p \in Procs : result[p] = "ok"
     /\ Len(movements) = 2
     /\ movements[1].variant_id = movements[2].variant_id
     /\ movements[1].location_id = movements[2].location_id)
    => BalanceQty(<<movements[1].variant_id, movements[1].location_id>>)
          = 0 + Signed(movements[1]) + Signed(movements[2])

\* C5: when the balance update of a createMovement call fails after its
\* INSERT INTO stock_movements, the inserted row (id = insertId) is not among
\* the committed movements.
C5_MovementAtomic ==
    [][\A p \in Procs :
          (/\ pc[p] = "cm_write"
           /\ pc'[p] = "idle"
           /\ result'[p] # "ok")
          => ~\E i \in 1..Len(movements') : movements'[i].id = lv[p].insertId]_vars


\* C4: an OUT movement for more than the balance holds fails with
\* InsufficientStock and changes neither ledger nor balances when
\* ALLOW_NEGATIVE is off; when it is on, the movement passes the check, is in
\* the ledger, and its balance write leaves the balance negative by the
\* shortfall.
C4_InsufficientStock ==
    [][\A p \in Procs :
          LET c == call[p]
              x == <<c.variantId, c.locationId>>
          IN  /\ (/\ pc[p] = "cm_check"
                  /\ pc'[p] # "cm_check"
                  /\ c.movementType = "OUT"
                  /\ c.reasonCode \in {"SALES_OUT", "GIFT_OUT", "ADJUSTMENT_OUT", "TRANSFER_OUT"}
                  /\ c.qty > 0
                  /\ c.qty > BalanceQty(x))
                 => /\ UNCHANGED <<balances, movements>>
                    /\ IF allowNegative
                       THEN pc'[p] = "cm_insert"
                       ELSE pc'[p] = "idle" /\ result'[p] = "InsufficientStock"
              /\ (/\ pc[p] = "cm_write"
                  /\ pc'[p] # "cm_write"
                  /\ req[p].op = "movement"
                  /\ c.movementType = "OUT"
                  /\ c.qty > BalanceQty(x))
                 => /\ allowNegative
                    /\ pc'[p] = "idle"
                    /\ result'[p] = "ok"
                    /\ movements' = movements
                    /\ \E i \in 1..Len(movements) :
                          /\ movements[i].id = lv[p].insertId
                          /\ movements[i].movement_type = "OUT"
                          /\ movements[i].qty = c.qty
                          /\ <<movements[i].variant_id, movements[i].location_id>> = x
                    /\ balances'[x] = Row(0 - (c.qty - BalanceQty(x)))
                    /\ balances'[x].qty_on_hand < 0
                    /\ \A y \in Pairs \ {x} : balances'[y] = balances[y]]_vars

\* an OUT movement went through with ALLOW_NEGATIVE on and drove a balance
\* below zero
C4_Witness ==
    /\ allowNegative
    /\ result[1] = "ok"
    /\ \E x \in Pairs : balances[x].exists /\ balances[x].qty_on_hand < 0
    /\ Len(movements) > 0
    /\ movements[Len(movements)].movement_type = "OUT"

\* C6: the commit of a transfer of q from A to B lowers balance(A) by q,
\* raises balance(B) by q, touches no other balance and appends exactly an
\* OUT/TRANSFER_OUT at A and an IN/TRANSFER_IN at B, both of quantity q and
\* with the same reference code.
C6_TransferEffect ==
    [][\A p \in Procs :
          (pc[p] = "t_commit" /\ pc'[p] = "idle")
          => LET r == req[p]
                 A == <<r.variantId, r.fromLocationId>>
                 B == <<r.variantId, r.toLocationId>>
                 n == Len(movements)
             IN  /\ result'[p] = "ok"
                 /\ A # B
                 /\ balances'[A] = Row(BalanceQty(A) - r.qty)
                 /\ balances'[B] = Row(BalanceQty(B) + r.qty)
                 /\ \A y \in Pairs \ {A, B} : balances'[y] = balances[y]
                 /\ Len(movements') = n + 2
                 /\ SubSeq(movements', 1, n) = movements
                 /\ movements'[n + 1].movement_type = "OUT"
                 /\ movements'[n + 1].reason_code = "TRANSFER_OUT"
                 /\ <<movements'[n + 1].variant_id, movements'[n + 1].location_id>> = A
                 /\ movements'[n + 1].qty = r.qty
                 /\ movements'[n + 2].movement_type = "IN"
                 /\ movements'[n + 2].reason_code = "TRANSFER_IN"
                 /\ <<movements'[n + 2].variant_id, movements'[n + 2].location_id>> = B
                 /\ movements'[n + 2].qty = r.qty
                 /\ movements'[n + 1].ref_code = movements'[n + 2].ref_code]_vars

\* a transfer was committed
C6_Witness ==
    /\ result[1] = "ok"
    /\ Len(movements) >= 2
    /\ movements[Len(movements)].reason_code = "TRANSFER_IN"
    /\ movements[Len(movements) - 1].reason_code = "TRANSFER_OUT"

\* the committed TRANSFER_OUT rows with reference code r are as many as the
\* committed TRANSFER_IN rows with it
PairedTransfers(ledger) ==
    \A k \in 1..Len(ledger) :
        ledger[k].reason_code \in {"TRANSFER_OUT", "TRANSFER_IN"}
        => Cardinality({i \in 1..Len(ledger) : /\ ledger[i].reason_code = "TRANSFER_OUT"
                                               /\ ledger[i].ref_code = ledger[k].ref_code})
           = Cardinality({i \in 1..Len(ledger) : /\ ledger[i].reason_code = "TRANSFER_IN"
                                                 /\ ledger[i].ref_code = ledger[k].ref_code})

\* C7: the committed ledger never holds one movement of a transfer without
\* the other; no step of a transfer request other than its commit changes a
\* committed balance or the committed ledger, in particular not the step at
\* which it fails; its commit publishes both movements and both balance rows.
C7_TransferAllOrNothing ==
    [][/\ PairedTransfers(movements')
       /\ \A p \in Procs :
            (req[p].op = "transfer" /\ pc'[p] # pc[p])
            => IF pc[p] = "t_commit"
               THEN LET A == <<req[p].variantId, req[p].fromLocationId>>
                        B == <<req[p].variantId, req[p].toLocationId>>
                    IN  /\ result'[p] = "ok"
                        /\ Len(txMov[p]) = 2
                        /\ movements' = movements \o txMov[p]
                        /\ txBal[p][A].w /\ txBal[p][B].w
                        /\ balances'[A] = Row(txBal[p][A].qty_on_hand)
                        /\ balances'[B] = Row(txBal[p][B].qty_on_hand)
               ELSE UNCHANGED <<balances, movements>>]_vars

\* a transfer to a location that has no row failed at the INSERT of its IN
\* movement, after its OUT movement and the source balance had been written:
\* the one movement id it consumed is missing from the committed ledger
C7_Witness ==
    /\ Quiescent
    /\ 2 \notin locations
    /\ \E p \in Procs : result[p] = "DbError"
    /\ nextMovementId = Len(movements) + 2
    /\ Len(movements) > 0

\* C8: a transfer whose source and destination are the same location ends at
\* the same-location test with an error, with the committed ledger and
\* balances unchanged and nothing buffered; no transfer gets past that test
\* with equal locations.
C8_SameLocationRejected ==
    [][\A p \in Procs :
          /\ (/\ pc[p] = "t_begin"
              /\ pc'[p] # "t_begin"
              /\ req[p].fromLocationId = req[p].toLocationId)
             => /\ pc'[p] = "idle"
                /\ result'[p] = "InvalidArgument"
                /\ txMov[p] = <<>>
                /\ UNCHANGED <<balances, movements>>
          /\ (req'[p].op = "transfer" /\ pc'[p] # "t_begin")
             => req'[p].fromLocationId # req'[p].toLocationId]_vars

\* a same-location transfer was rejected while the ledger held a movement
C8_Witness ==
    /\ \E p \in Procs : result[p] = "InvalidArgument"
    /\ Len(movements) > 0

\* the rows a step appends to the committed ledger
Booked == SubSeq(movements', Len(movements) + 1, Len(movements'))

\* the step that commits the opname session of request slot p
OpnameCommitted(p) == pc[p] = "co_commit" /\ pc'[p] = "idle" /\ result'[p] = "ok"

\* C9: the commit of an ACTIVE opname session books exactly one movement for
\* every item with a non-null counted_qty and a variance counted_qty -
\* system_qty other than zero: IN / ADJUSTMENT_IN when the variance is
\* positive, OUT / ADJUSTMENT_OUT when it is negative, of quantity |variance|,
\* referencing the session; an item with a null count or a zero variance gets
\* no movement, and nothing else is booked
C9_OpnameAdjustments ==
    [][\A p \in Procs : OpnameCommitted(p) =>
          LET s == txStatus[p] IN
          /\ opname[s].status = "ACTIVE"
          /\ opname'[s].status = "COMPLETED"
          /\ \A i \in 1..Len(Booked) : <<Booked[i].variant_id, Booked[i].location_id>> \in Pairs
          /\ \A x \in Pairs :
                LET item == opname[s].items[x]
                    v == item.counted_qty - item.system_qty
                    rows == {i \in 1..Len(Booked) : /\ Booked[i].variant_id = x[1]
                                                    /\ Booked[i].location_id = x[2]}
                IN  IF item.present /\ item.counted /\ v # 0
                    THEN /\ Cardinality(rows) = 1
                         /\ \A i \in rows :
                               /\ v > 0 => /\ Booked[i].movement_type = "IN"
                                           /\ Booked[i].reason_code = "ADJUSTMENT_IN"
                                           /\ Booked[i].qty = v
                               /\ v < 0 => /\ Booked[i].movement_type = "OUT"
                                           /\ Booked[i].reason_code = "ADJUSTMENT_OUT"
                                           /\ Booked[i].qty = 0 - v
                               /\ Booked[i].ref_table = "stock_opname"
                               /\ Booked[i].ref_id = s
                    ELSE rows = {}]_vars

\* a session with a surplus at one location, a shortage at the other was
\* committed: the ledger holds its ADJUSTMENT_IN and its ADJUSTMENT_OUT
C9_Witness ==
    /\ Quiescent
    /\ \E s \in Sessions :
          /\ opname[s].status = "COMPLETED"
          /\ \E i, j \in 1..Len(movements) :
                /\ movements[i].reason_code = "ADJUSTMENT_IN"
                /\ movements[j].reason_code = "ADJUSTMENT_OUT"
                /\ movements[i].ref_id = s
                /\ movements[j].ref_id = s

\* C10 as stated: after a successful opname commit the balance at the pair of
\* every item with a non-null counted_qty equals that counted_qty
C10_BalanceEqualsCounted ==
    [][\A p \in Procs : OpnameCommitted(p) =>
          \A x \in Pairs :
             LET item == opname[txStatus[p]].items[x] IN
             item.present /\ item.counted => BalanceQty(x)' = item.counted_qty]_vars

\* C10 amended: a successful opname commit moves the balance at the pair of
\* every item with a non-null counted_qty by counted_qty - system_qty, and
\* leaves every other balance alone; the balance equals counted_qty exactly
\* when the balance before the commit was the snapshotted system_qty
C10_BalanceMovesByVariance ==
    [][\A p \in Procs : OpnameCommitted(p) =>
          \A x \in Pairs :
             LET item == opname[txStatus[p]].items[x] IN
             IF item.present /\ item.counted
             THEN /\ BalanceQty(x)' = BalanceQty(x) + (item.counted_qty - item.system_qty)
                  /\ BalanceQty(x)' = item.counted_qty <=> BalanceQty(x) = item.system_qty
             ELSE BalanceQty(x)' = BalanceQty(x)]_vars

\* a session was committed after a movement changed the balance its snapshot
\* recorded: the counted item's balance differs from its counted_qty
C10_Witness ==
    /\ Quiescent
    /\ \E s \in Sessions, x \in Pairs :
          /\ opname[s].status = "COMPLETED"
          /\ opname[s].items[x].present
          /\ opname[s].items[x].counted
          /\ opname[s].items[x].counted_qty # opname[s].items[x].system_qty
          /\ \E i \in 1..Len(movements) :
                /\ movements[i].ref_id = s
                /\ <<movements[i].variant_id, movements[i].location_id>> = x
                /\ Signed(movements[i]) =
                      opname[s].items[x].counted_qty - opname[s].items[x].system_qty
          /\ BalanceQty(x) # opname[s].items[x].counted_qty

\* the committed movements that reference opname session s
AdjustmentsOf(ledger, s) ==
    {i \in 1..Len(ledger) : ledger[i].ref_table = "stock_opname" /\ ledger[i].ref_id = s}

\* C11: the commit of an opname session is all-or-nothing.  No step of a
\* commit request other than its final commit changes the committed ledger,
\* a committed balance or a session, in particular not the step at which an
\* adjustment fails; the final commit publishes every adjustment the request
\* booked together with the status COMPLETED; and the committed ledger never
\* holds an adjustment of a session that is still ACTIVE.
C11_OpnameCommitAllOrNothing ==
    [][/\ \A s \in Sessions :
            AdjustmentsOf(movements', s) # {} => opname'[s].status = "COMPLETED"
       /\ \A p \in Procs :
            (req[p].op = "commitOpname" /\ pc'[p] # pc[p])
            => IF pc[p] = "co_commit"
               THEN /\ result'[p] = "ok"
                    /\ movements' = movements \o txMov[p]
                    /\ \A i \in 1..Len(txMov[p]) :
                          /\ txMov[p][i].ref_table = "stock_opname"
                          /\ txMov[p][i].ref_id = req[p].opnameId
                    /\ opname'[req[p].opnameId].status = "COMPLETED"
                    /\ \A x \in Pairs :
                          balances'[x] = IF txBal[p][x].w THEN Row(txBal[p][x].qty_on_hand)
                                                         ELSE balances[x]
               ELSE /\ UNCHANGED <<balances, movements, opname>>
                    /\ pc'[p] = "idle" => result'[p] # "ok"]_vars

\* a commit request failed at the balance write of an adjustment it had
\* already inserted (the row is locked by an overlapping commit that has not
\* committed yet): the movement id it consumed is neither in the committed
\* ledger nor in the other request's buffer, the session is still ACTIVE and
\* the ledger holds no adjustment
C11_Witness ==
    \E p, q \in Procs, s \in Sessions :
        /\ p # q
        /\ pc[p] = "idle"
        /\ result[p] = "DbError"
        /\ req[q].op = "commitOpname"
        /\ req[q].opnameId = s
        /\ Len(txMov[q]) = 1
        /\ nextMovementId = Len(movements) + 3
        /\ opname[s].status = "ACTIVE"
        /\ AdjustmentsOf(movements, s) = {}

\* C12: a commit request on a session that is not ACTIVE (no such session,
\* or COMPLETED) ends at the status check with InvalidState, with nothing
\* buffered, and changes no movement, no balance and no session; a request
\* gets past the status check only for an ACTIVE session.
C12_CommitNotActiveRejected ==
    [][\A p \in Procs :
          (pc[p] = "co_check" /\ pc'[p] # "co_check")
          => IF opname[req[p].opnameId].status = "ACTIVE"
             THEN pc'[p] = "co_items"
             ELSE /\ opname[req[p].opnameId].status \in {"NONE", "COMPLETED", "CANCELLED"}
                  /\ pc'[p] = "idle"
                  /\ result'[p] = "InvalidState"
                  /\ txMov'[p] = <<>>
                  /\ movements' = movements
                  /\ balances' = balances
                  /\ opname' = opname]_vars

\* the second commit of a session was rejected: the session is COMPLETED
\* and the ledger holds the one adjustment of its first commit
C12_Witness ==
    /\ Quiescent
    /\ result[1] = "InvalidState"
    /\ \E s \in Sessions : /\ opname[s].status = "COMPLETED"
                            /\ Cardinality(AdjustmentsOf(movements, s)) = 1

\* C13: for every opname session and every item of it, the committed ledger
\* holds at most one adjustment movement that references the session at the
\* item's (variant, location), whatever the interleaving of commit requests.
C13_AdjustmentBookedOnce ==
    \A s \in Sessions, x \in Pairs :
        Cardinality({i \in AdjustmentsOf(movements, s) :
                        <<movements[i].variant_id, movements[i].location_id>> = x}) <= 1

\* C14: the items of a COMPLETED session are immutable: no step changes
\* counted_qty (and with it the variance) of an item of a session that is
\* COMPLETED.
C14_CompletedItemsImmutable ==
    [][\A s \in Sessions :
          opname[s].status = "COMPLETED" => opname'[s].items = opname[s].items]_vars

\* C15: the status of an opname session follows the state machine: a session
\* row appears with status ACTIVE; the only other changes of status are ACTIVE
\* to COMPLETED, made by the commit of a commit request on that session, and
\* ACTIVE to CANCELLED; COMPLETED and CANCELLED never change, so a session
\* enters COMPLETED at most once.
C15_StatusStateMachine ==
    [][\A s \in Sessions :
          opname'[s].status # opname[s].status
          => \/ opname[s].status = "NONE" /\ opname'[s].status = "ACTIVE"
             \/ /\ opname[s].status = "ACTIVE"
                /\ opname'[s].status = "COMPLETED"
                /\ \E p \in Procs : /\ pc[p] = "co_commit"
                                     /\ req[p].opnameId = s
                                     /\ pc'[p] = "idle"
             \/ opname[s].status = "ACTIVE" /\ opname'[s].status = "CANCELLED"]_vars

\* a session is COMPLETED while another commit request on it, accepted when
\* it was ACTIVE, is about to commit
C15_Witness ==
    \E s \in Sessions, p \in Procs :
        /\ opname[s].status = "COMPLETED"
        /\ pc[p] = "co_commit"
        /\ req[p].opnameId = s

\* C16: starting an opname creates an ACTIVE session whose items are exactly
\* the pairs with a balance quantity above zero at the instant of its one
\* SELECT (those of the given location when one is given), each with
\* system_qty equal to that quantity and a null counted_qty; the session and
\* its items become visible in one step, and no other step of the request
\* changes a session.
C16_StartSnapshot ==
    [][\A p \in Procs :
          (req[p].op = "startOpname" /\ pc'[p] # pc[p])
          => /\ pc[p] = "so_snapshot"
                => /\ pc'[p] = "so_commit"
                   /\ \A x \in Pairs :
                         LET item == lv'[p].snapshot[x] IN
                         /\ item.present <=>
                               /\ BalanceQty(x) > 0
                               /\ req[p].locationId # 0 => x[2] = req[p].locationId
                         /\ item.present => /\ item.system_qty = BalanceQty(x)
                                             /\ ~item.counted
             /\ IF pc[p] = "so_commit"
                THEN LET s == lv[p].opnameId IN
                     /\ result'[p] = "ok"
                     /\ opname[s].status = "NONE"
                     /\ opname'[s].status = "ACTIVE"
                     /\ opname'[s].location_id = req[p].locationId
                     /\ opname'[s].items = lv[p].snapshot
                     /\ \A t \in Sessions \ {s} : opname'[t] = opname[t]
                     /\ UNCHANGED <<balances, movements>>
                ELSE UNCHANGED <<balances, movements, opname>>]_vars

\* a session scoped to location 1 is ACTIVE with an uncounted item for the
\* stock at location 1 and no item for the stock at location 2
C16_Witness ==
    \E s \in Sessions :
        /\ opname[s].status = "ACTIVE"
        /\ opname[s].location_id = 1
        /\ opname[s].items[<<1, 1>>].present
        /\ opname[s].items[<<1, 1>>].system_qty = BalanceQty(<<1, 1>>)
        /\ ~opname[s].items[<<1, 1>>].counted
        /\ ~opname[s].items[<<1, 2>>].present
        /\ BalanceQty(<<1, 2>>) > 0

\* C17: a count request for a (session, variant, location) triple that has
\* no item in the session fails with NotFound and changes no item, no balance
\* and no movement; a request that ends with NotFound changed nothing, and no
\* request gives a count to a triple that has no item.
C17_CountNotFound ==
    [][\A p \in Procs :
          /\ \A s \in Sessions, x \in Pairs, countedQty \in CountInputs :
                (/\ pc[p] = "idle"
                 /\ ~opname[s].items[x].present
                 /\ updateOpnameCount(p, s, x, countedQty))
                => /\ result'[p] = "NotFound"
                   /\ opname' = opname
                   /\ balances' = balances
                   /\ movements' = movements
          /\ (pc[p] = "idle" /\ pc'[p] = "idle" /\ result'[p] = "NotFound")
                => UNCHANGED <<balances, movements, opname>>
          /\ \A s \in Sessions, x \in Pairs :
                opname'[s].items[x].counted
                => opname[s].items[x].present /\ opname'[s].items[x].present]_vars

\* a count for the pair at location 2 was answered NotFound by a session
\* that holds an item for the pair at location 1 only
C17_Witness ==
    /\ result[1] = "NotFound"
    /\ \E s \in Sessions : /\ opname[s].status = "ACTIVE"
                            /\ opname[s].items[<<1, 1>>].present
                            /\ ~opname[s].items[<<1, 2>>].present

\* the reason codes of IN movements and of OUT movements
InReasons == {"OVERPROD_IN", "RETURN_IN", "ADJUSTMENT_IN", "TRANSFER_IN"}
OutReasons == {"SALES_OUT", "GIFT_OUT", "ADJUSTMENT_OUT", "TRANSFER_OUT"}

\* C20: createMovement called with a reason code that is not one of its
\* direction's four fails with InvalidReasonCode at the validation, inserts
\* no movement and changes no balance; every movement of the committed ledger
\* has a reason code of its direction.
C20_ReasonMatchesDirection ==
    [][/\ \A p \in Procs :
            (/\ pc[p] = "cm_check"
             /\ pc'[p] # "cm_check"
             /\ call[p].variantId # 0 /\ call[p].locationId # 0 /\ call[p].qty > 0
             /\ \/ call[p].movementType = "IN" /\ call[p].reasonCode \notin InReasons
                \/ call[p].movementType = "OUT" /\ call[p].reasonCode \notin OutReasons
                \/ call[p].movementType \notin {"IN", "OUT"})
            => /\ pc'[p] = "idle"
               /\ result'[p] = "InvalidReasonCode"
               /\ txMov'[p] = <<>>
               /\ nextMovementId' = nextMovementId
               /\ UNCHANGED <<balances, movements>>
       /\ \A i \in 1..Len(movements') :
            \/ movements'[i].movement_type = "IN" /\ movements'[i].reason_code \in InReasons
            \/ movements'[i].movement_type = "OUT" /\ movements'[i].reason_code \in OutReasons]_vars

\* a request whose reason does not belong to its direction was rejected;
\* the ledger holds the one IN movement of the other request
C20_Witness ==
    /\ \E p \in Procs : result[p] = "InvalidReasonCode"
    /\ Len(movements) = 1
    /\ movements[1].reason_code = "RETURN_IN"

\* the write of updateStockBalance for an IN movement with a unit cost
CostedIn == /\ cost.phase = "read"
            /\ cost'.phase = "written"
            /\ cost.movementType = "IN"
            /\ ~cost.unitCost.null
            /\ cost.unitCost.v > 0

\* the average cost a row carries, NULL read as no cost
AvgCostOf(column) == IF column.null THEN 0 ELSE column.v

C19_AverageCostFrame ==
    [][(cost.phase = "read" /\ cost'.phase = "written") =>
          /\ cost.movementType = "OUT"
                => /\ AvgCostOf(cost'.newAvgCost) = AvgCostOf(cost.avg_cost)
                   /\ cost'.newQty = cost.qty_on_hand - cost.qty
          /\ (/\ cost.movementType = "IN"
              /\ (cost.unitCost.null \/ cost.unitCost.v <= 0))
                => /\ AvgCostOf(cost'.newAvgCost) = AvgCostOf(cost.avg_cost)
                   /\ cost'.newQty = cost.qty_on_hand + cost.qty
                   /\ cost'.newQty # cost.qty_on_hand]_vars

\* an OUT that carries a unit cost was written on a row with an average
\* cost of 1.00: the row keeps that cost
C19_Witness ==
    /\ cost.phase = "written"
    /\ cost.movementType = "OUT"
    /\ cost.unitCost = Cost(200)
    /\ cost.avg_cost = Cost(100)
    /\ cost.qty_on_hand = 2
    /\ cost.newQty = 1
    /\ cost.newAvgCost = Cost(100)

\* the first sequence is a prefix of the second
IsPrefix(a, b) == Len(a) <= Len(b) /\ SubSeq(b, 1, Len(a)) = a

\* C21: createMovement called without a variant, a location, a direction or
\* a reason code, or with a quantity of zero or less, fails with
\* InvalidArgument at its validation and leaves ledger, balances and the
\* movement counter as they were; every movement of the ledger has a quantity
\* above zero.
C21_InvalidArgument ==
    [][/\ \A p \in Procs :
            (/\ pc[p] = "cm_check"
             /\ pc'[p] # "cm_check"
             /\ \/ call[p].variantId = 0 \/ call[p].locationId = 0
                \/ call[p].movementType = "" \/ call[p].reasonCode = ""
                \/ call[p].qty <= 0)
            => /\ pc'[p] = "idle"
               /\ result'[p] = "InvalidArgument"
               /\ txMov'[p] = <<>>
               /\ nextMovementId' = nextMovementId
               /\ UNCHANGED <<balances, movements>>
       /\ \A i \in 1..Len(movements') : movements'[i].qty > 0]_vars

\* a request with a quantity of zero or less, or with a variant or location
\* that is no number, was rejected by createMovement after the movement of
\* an earlier request was booked, which is still the whole ledger
C21_Witness ==
    /\ result[1] = "InvalidArgument"
    /\ nReq = 2
    /\ Len(movements) = 1
    /\ movements[1].qty > 0
    /\ nextMovementId = 2

\* C30: createMovement reports the first failing check of required fields
\* and positive quantity, then reason code against direction, then stock: a
\* call that passes the first check with a reason code that is not of its
\* direction fails with InvalidReasonCode whatever the balance holds, also
\* when it is an OUT for more than the balance with ALLOW_NEGATIVE off, and
\* InsufficientStock is reported only for a call that passes the first two
\* checks; a call that fails any check writes no balance and no movement.
C30_ValidationOrder ==
    [][\A p \in Procs :
          LET c == call[p]
              x == <<c.variantId, c.locationId>>
              fieldsOk == /\ c.variantId # 0 /\ c.locationId # 0
                          /\ c.movementType # "" /\ c.reasonCode # ""
                          /\ c.qty > 0
              reasonOk == \/ c.movementType = "IN" /\ c.reasonCode \in InReasons
                          \/ c.movementType = "OUT" /\ c.reasonCode \in OutReasons
              short == /\ c.movementType = "OUT"
                       /\ ~allowNegative
                       /\ c.qty > (IF x \in DOMAIN balances /\ balances[x].exists
                                   THEN balances[x].qty_on_hand ELSE 0)
          IN  (pc[p] = "cm_check" /\ pc'[p] # "cm_check" /\ req[p].op = "movement")
              => /\ ~fieldsOk => result'[p] = "InvalidArgument"
                 /\ (fieldsOk /\ ~reasonOk) => result'[p] = "InvalidReasonCode"
                 /\ (fieldsOk /\ reasonOk /\ short) => result'[p] = "InsufficientStock"
                 /\ (fieldsOk /\ reasonOk /\ ~short) => pc'[p] = "cm_insert"
                 /\ pc'[p] # "cm_insert"
                       => /\ pc'[p] = "idle"
                          /\ UNCHANGED <<balances, movements, txBal, txMov>>]_vars

\* a request was rejected for its reason code while ALLOW_NEGATIVE is off
\* and no balance holds any stock, so that an OUT of any quantity is also
\* above the available stock
C30_Witness ==
    /\ result[1] = "InvalidReasonCode"
    /\ ~allowNegative
    /\ movements = <<>>
    /\ \A x \in DOMAIN balances : balances[x].qty_on_hand = 0

\* C29 as stated: a POST /movements that names the variant by product_id,
\* color_id and size_id goes on to createMovement with the variant of that
\* triple
C29_TripleBooked ==
    [][\A p \in Procs :
          (/\ pc[p] = "rv_lookup"
           /\ pc'[p] # "rv_lookup"
           /\ req[p].op = "movement")
          => /\ pc'[p] = "cm_check"
             /\ call'[p].variantId
                   \in variantsByIds(req[p].product_id, req[p].color_id, req[p].size_id)]_vars

\* a step of DELETE /variant/:id that removes rows of stock_movements
DeletesMovements ==
    \E p \in Procs : pc[p] \in {"dv_movements", "dv_variant"} /\ pc'[p] # pc[p]

\* C22: across every step other than the delete of a variant the rows of
\* stock_movements before the step are a prefix of the rows after it: no
\* row is updated or removed, rows are only appended.
C22_AppendOnly ==
    [][DeletesMovements \/ IsPrefix(movements, movements')]_vars

\* a transfer has committed its two rows behind the row of an earlier
\* movement, which is still the first row of the ledger
C22_Witness ==
    /\ Len(movements) = 3
    /\ movements[1].id = 1
    /\ movements[1].reason_code \in ReqReasons
    /\ movements[2].reason_code = "TRANSFER_OUT"
    /\ movements[3].reason_code = "TRANSFER_IN"
    /\ \A p \in Procs : pc[p] = "idle"

\* the index in req[p].records of the record the import is processing
recordIndex(p) == (Len(req[p].records) - Len(lv[p].items)) + 1

\* C23 as stated: when the import resolves, for its second record, the three
\* names it resolved for its first record, and no variant was deleted in
\* between, the resolver returns at its lookup with created = false and the
\* id of a variant that has a row, and the catalog, the balances and the
\* count of created variants are as before
C23_ResolveTwice ==
    [][(/\ req[1].op = "import"
        /\ pc[1] = "rv_lookup"
        /\ pc'[1] # "rv_lookup"
        /\ recordIndex(1) = 2
        /\ req[1].records[2].product_name = req[1].records[1].product_name
        /\ req[1].records[2].color_name = req[1].records[1].color_name
        /\ req[1].records[2].size_name = req[1].records[1].size_name
        /\ \A i \in 1..Len(results[1].errors) : results[1].errors[i][1] # 2
        /\ req[2].op = "none"
        /\ result[2] = "none")
       => /\ pc'[1] = "im_location"
          /\ call'[1].variantId \in VariantIds
          /\ results'[1].created = results[1].created
          /\ UNCHANGED <<catalog, balances>>]_vars

\* C24 as stated: the commit of a new variant makes a balance row with
\* quantity 0 visible for it at every location that exists, together with
\* the variant; whenever no request is in flight every variant has a balance
\* row at every location
C24_BalanceRowEverywhere ==
    [][/\ \A p \in Procs :
            (pc[p] = "cv_commit" /\ pc'[p] # "cv_commit")
            => /\ cv[p].variantId \in VariantIds'
               /\ \A l \in locations :
                     /\ <<cv[p].variantId, l>> \in DOMAIN balances'
                     /\ balances'[<<cv[p].variantId, l>>] = Row(0)
       /\ (\A p \in Procs : pc'[p] = "idle")
            => \A v \in VariantIds', l \in locations' :
                  /\ <<v, l>> \in DOMAIN balances'
                  /\ balances'[<<v, l>>].exists]_vars

\* the rows the import has finished before the one it is processing
rowsDone(p) == Len(req[p].records) - Len(lv[p].items)

\* C28: the import finishes every record exactly once, by counting it as
\* imported or by adding an error with its row number, and goes on with the
\* next record or, after the last, answers with the results: a record with a
\* missing field, an invalid quantity or an unknown location, and a record
\* whose resolveVariantId or createMovement throws, adds its error, books
\* nothing and is followed by the next record; a record that passes these
\* tests with a quantity above zero has its movement appended to the ledger
\* and is counted as imported, wherever the failing records are.
C28_ImportContinues ==
    [][(req[1].op = "import" /\ pc'[1] # pc[1])
       => LET row == Head(lv[1].items)
              c == call[1]
              ends == pc'[1] \in {"im_row", "idle"}
              failed == /\ results'[1].errors # results[1].errors
                        /\ Len(results'[1].errors) = Len(results[1].errors) + 1
                        /\ results'[1].errors[Len(results'[1].errors)][1] = rowsDone(1) + 2
                        /\ SubSeq(results'[1].errors, 1, Len(results[1].errors))
                              = results[1].errors
                        /\ results'[1].imported = results[1].imported
                        /\ movements' = movements
              counted == /\ results'[1].errors = results[1].errors
                         /\ results'[1].imported = results[1].imported + 1
          IN  /\ ends => /\ failed \/ counted
                         /\ results'[1].imported + Len(results'[1].errors) = rowsDone(1) + 1
                         /\ IF Len(lv[1].items) > 1
                            THEN /\ pc'[1] = "im_row"
                                 /\ req'[1] = req[1]
                                 /\ lv'[1].items = Tail(lv[1].items)
                            ELSE /\ pc'[1] = "idle"
                                 /\ result'[1] = "ok"
              /\ ~ends => /\ results'[1].errors = results[1].errors
                          /\ results'[1].imported = results[1].imported
                          /\ lv'[1].items = lv[1].items
              /\ (/\ pc[1] = "im_row"
                  /\ \/ row.product_name = "" \/ row.quantity = Undefined
                     \/ row.quantity.t = "text"
                     \/ row.quantity.n < 0)
                 => ends /\ failed
              /\ (pc[1] = "im_location" /\ locationMapping(row.location_name)
                                             \notin {locationName(l) : l \in locations})
                 => ends /\ failed
              /\ (pc[1] = "cv_pcs" /\ pc'[1] # "cv_balances") => ends /\ failed
              /\ (pc[1] = "cm_insert" /\ pc'[1] # "cm_read") => ends /\ failed
              /\ (pc[1] = "cm_check") => pc'[1] = "cm_insert"
              /\ (pc[1] = "cm_insert" /\ c.variantId \in VariantIds /\ c.locationId \in locations)
                 => /\ pc'[1] = "cm_read"
                    /\ Len(movements') = Len(movements) + 1
                    /\ IsPrefix(movements, movements')
                    /\ LET m == movements'[Len(movements')]
                       IN  /\ m.variant_id = c.variantId
                           /\ m.location_id = c.locationId
                           /\ m.movement_type = "IN"
                           /\ m.qty = parseInt(row.quantity)
                           /\ m.qty > 0
              /\ (pc[1] = "im_location" /\ ~ends)
                 => /\ pc'[1] = (IF req[1].mode = "add" THEN "cm_check" ELSE "im_balance")
                    /\ call'[1].locationId \in locations
              /\ (pc[1] = "im_location" /\ ends /\ ~failed)
                 => req[1].mode = "add" /\ parseInt(row.quantity) = 0
              /\ (pc[1] = "im_balance" /\ ~ends) => pc'[1] = "cm_check"
              /\ (pc[1] = "im_balance" /\ ends) => counted /\ parseInt(row.quantity) = 0
              /\ (pc[1] = "cm_write") => ends
              /\ (pc[1] = "cm_write" /\ c.variantId \in VariantIds) => counted]_vars

\* an import of two records has answered: the first record failed and is
\* in the error list under its row number 2, the second was counted and its
\* movement is the ledger
C28_Witness ==
    /\ pc[1] = "idle"
    /\ result[1] = "ok"
    /\ Len(results[1].errors) = 1
    /\ results[1].errors[1][1] = 2
    /\ results[1].imported = 1
    /\ Len(movements) = 1
    /\ movements[1].reason_code = "ADJUSTMENT_IN"

\* an import of two records has answered: createMovement threw for the
\* first, whose variant a request deleted, and the second, of another
\* variant, was counted and its movement is the ledger
C28_WitnessMovementError ==
    /\ pc[1] = "idle"
    /\ result[1] = "ok"
    /\ Len(results[1].errors) = 1
    /\ results[1].errors[1] = <<2, "DbError">>
    /\ results[1].imported = 1
    /\ results[1].created = 1
    /\ Len(movements) = 1
    /\ movements[1].variant_id = 2
    /\ 1 \notin VariantIds

\* C27 as stated: when the stock movement of an item of POST /create raises
\* an error, the request ends with that error and nothing of its
\* transaction is committed: no row of transactions, of stock_movements or
\* of stock_balances
C27_SaleAborts ==
    [][/\ (/\ req[1].op = "sale"
           /\ pc[1] \in {"rv_lookup", "cm_check", "cm_insert", "cm_write"}
           /\ pc'[1] \in {"tx_item", "tx_commit", "idle"})
          \* the call made for the item has thrown
          => /\ pc'[1] = "idle"
             /\ result'[1] \notin {"ok", "none"}
             /\ UNCHANGED <<transactions, movements, balances>>
       /\ (req[1].op = "sale" /\ pc'[1] = "idle" /\ result'[1] # "ok")
          => UNCHANGED <<transactions, movements, balances>>]_vars

\* the signed sum of the quantities of the rows
RECURSIVE SignedSum(_)
SignedSum(rows) ==
    IF rows = <<>> THEN 0
    ELSE (IF Head(rows).movement_type = "IN" THEN Head(rows).qty ELSE 0 - Head(rows).qty)
            + SignedSum(Tail(rows))

\* the ids of the rows of the ledger of the stock card that are of its
\* location and before its fromDate
BeforeFrom ==
    {i \in 1..Len(card.ledger) :
        /\ card.ledger[i].location_id = card.locationId
        /\ card.ledger[i].created_at < card.fromDate}

\* the signed sum of the rows of the ledger of the stock card with the ids
RECURSIVE SignedSumOf(_)
SignedSumOf(ids) ==
    IF ids = {} THEN 0
    ELSE LET i == CHOOSE i \in ids : TRUE
             m == card.ledger[i]
         IN  (IF m.movement_type = "IN" THEN m.qty ELSE 0 - m.qty) + SignedSumOf(ids \ {i})

C26_Reconciles ==
    (/\ card.phase = "returned"
     /\ card.toDate = 0
     /\ card.movements # <<>>)
    => card.movements[Len(card.movements)].running_balance = Number(card.current_qty)

\* C31: a step of a movement request against the pair x leaves every other
\* balance row and every opname session with its items unchanged.  When the
\* requests that overlap are on different pairs, the quantity a movement read
\* is still the quantity of the row when it writes, the row it writes holds
\* that quantity plus (IN) or minus (OUT) its own, and whenever no request is
\* in flight every balance is the signed sum of the ledger rows of its pair:
\* the state the same requests lead to one after the other.
C31_MovementFrame ==
    [][/\ \A p \in Procs :
            LET c == call[p]
                x == <<c.variantId, c.locationId>>
            IN  (/\ req[p].op = "movement"
                 /\ pc[p] \in {"cm_check", "cm_insert", "cm_read", "cm_write"}
                 /\ pc'[p] # pc[p])
                => /\ opname' = opname
                   /\ \A y \in Pairs \ {x} : balances'[y] = balances[y]
                   /\ (pc[p] = "cm_write")
                        => /\ lv[p].rowExists = balances[x].exists
                           /\ lv[p].currentQty = BalanceQty(x)
                           /\ result'[p] = "ok"
                           /\ balances'[x] = Row(IF c.movementType = "IN"
                                                  THEN BalanceQty(x) + c.qty
                                                  ELSE BalanceQty(x) - c.qty)
       /\ Quiescent' => \A x \in Pairs :
                           (IF balances'[x].exists THEN balances'[x].qty_on_hand ELSE 0)
                              = LedgerSum(movements', x)]_vars

\* the movement of slot 1 against location 1 was inserted and written while
\* the movement of slot 2 against location 2 was between its INSERT and its
\* balance write, a session holding an item of the pair of location 1
C31_Witness ==
    /\ pc[2] = "cm_write"
    /\ call[2].locationId = 2
    /\ pc[1] = "idle"
    /\ result[1] = "ok"
    /\ Len(movements) = 3
    /\ movements[2].location_id = 2
    /\ movements[3].location_id = 1
    /\ BalanceQty(<<1, 1>>) = 2
    /\ opname[1].items[<<1, 1>>].present

\* C32: no step changes the system_qty of an opname item that exists: not a
\* count, not a movement booked after the snapshot, not the commit of the
\* session.
C32_SystemQtyFixed ==
    [][\A s \in Sessions, x \in Pairs :
          (opname[s].items[x].present /\ opname'[s].items[x].present)
          => opname'[s].items[x].system_qty = opname[s].items[x].system_qty]_vars

\* the item was snapshot at 1, a movement was booked after the snapshot, the
\* item was counted at 0 and the session committed with its adjustment
C32_Witness ==
    /\ opname[1].status = "COMPLETED"
    /\ opname[1].items[<<1, 1>>].present
    /\ opname[1].items[<<1, 1>>].system_qty = 1
    /\ opname[1].items[<<1, 1>>].counted
    /\ opname[1].items[<<1, 1>>].counted_qty = 0
    /\ Len(movements) = 3
    /\ movements[2].reason_code = "RETURN_IN"
    /\ movements[3].reason_code = "ADJUSTMENT_OUT"
    /\ movements[3].ref_id = 1

\* C33: in every state the variance_qty of every opname item is NULL when its
\* counted_qty is NULL and counted_qty - system_qty otherwise; a count that
\* replaces an earlier count leaves the variance of the new counted_qty.
C33_VarianceDerived ==
    \A s \in Sessions, x \in Pairs :
        LET item == opname[s].items[x] IN
        item.present =>
            IF item.counted
            THEN ~item.variance_null /\ item.variance_qty = item.counted_qty - item.system_qty
            ELSE item.variance_null

\* an item snapshot at 1 and counted at 2 holds the variance 1
C33_Witness ==
    /\ opname[1].status = "ACTIVE"
    /\ opname[1].items[<<1, 1>>].present
    /\ opname[1].items[<<1, 1>>].system_qty = 1
    /\ opname[1].items[<<1, 1>>].counted
    /\ opname[1].items[<<1, 1>>].counted_qty = 2
    /\ opname[1].items[<<1, 1>>].variance_qty = 1

\* the rows of the catalog tables and of stock_balances that were created
\* after the seed
CreatedRows ==
    {r \in catalog.products : r.id >= SeedCatalog.nextProductId}
        \cup {r \in catalog.colors : r.id >= SeedCatalog.nextColorId}
        \cup {r \in catalog.sizes : r.id >= SeedCatalog.nextSizeId}
        \cup {r \in catalog.product_colors : r.id >= SeedCatalog.nextProductColorId}
        \cup {r \in catalog.product_color_sizes : r.id >= SeedCatalog.nextVariantId}

CreatedBalances == {x \in DOMAIN balances : x[1] >= SeedCatalog.nextVariantId /\ balances[x].exists}

\* C34 as stated: when the first record of the first import ends in the
\* error list, no catalog row and no balance row created after the seed is
\* stored.
C34_RowAtomic ==
    [][(/\ req[1].op = "import"
        /\ nReq = 1
        /\ Len(lv[1].items) = Len(req[1].records)
        /\ Len(results'[1].errors) > Len(results[1].errors))
       => (CreatedRows = {} /\ CreatedBalances = {})]_vars

\* the committed rows of stock_movements of the variant
MovementsOf(ledger, variantId) ==
    LET Test(m) == m.variant_id = variantId IN SelectSeq(ledger, Test)

\* the step removes a committed movement, balance row or opname item of the
\* variant
RemovesRowsOf(variantId) ==
    \/ Len(MovementsOf(movements', variantId)) < Len(MovementsOf(movements, variantId))
    \/ \E x \in DOMAIN balances :
          x[1] = variantId /\ balances[x].exists /\ ~balances'[x].exists
    \/ \E s \in Sessions, x \in Pairs :
          x[1] = variantId /\ opname[s].items[x].present /\ ~opname'[s].items[x].present

\* C35 as stated: while another request is in flight, a step that removes
\* committed rows of a variant removes the variant with all of its movements,
\* balance rows and opname items, so that no request reads a state with a
\* part of them.
C35_DeleteAtomic ==
    [][\A v \in VariantIds :
          (/\ RemovesRowsOf(v)
           /\ \E q \in Procs : pc[q] # "idle" /\ req[q].op # "deleteVariant")
          => /\ v \notin {r.id : r \in catalog'.product_color_sizes}
             /\ MovementsOf(movements', v) = <<>>
             /\ \A x \in DOMAIN balances' : x[1] = v => ~balances'[x].exists
             /\ \A s \in Sessions, x \in Pairs : x[1] = v => ~opname'[s].items[x].present]_vars

\* C36 as stated: whenever updateStockBalance recomputes the average cost (IN
\* movement with a unit cost above zero) the new quantity it divides by is
\* not zero, and the average cost it writes is a finite number.
C36_DivisorNonZero ==
    /\ (/\ cost.phase = "read"
         /\ cost.movementType = "IN"
         /\ ~cost.unitCost.null
         /\ cost.unitCost.v > 0)
        => cost.qty_on_hand + cost.qty # 0
    /\ cost.phase = "written" => cost.newAvgCost # NotFinite

\* the committed quantity of the variant over all locations
RECURSIVE SumOver(_, _, _)
SumOver(rows, variantId, locs) ==
    IF locs = {} THEN 0
    ELSE LET l == CHOOSE l \in locs : TRUE
             row == rows[<<variantId, l>>]
         IN  (IF row.exists THEN row.qty_on_hand ELSE 0) + SumOver(rows, variantId, locs \ {l})

\* C37 as stated: the step that ends a transfer, with its commit or with an
\* error, leaves the sum of the balance quantities of every variant over all
\* locations as it was.
C37_TransferConserves ==
    [][\A p \in Procs :
          (req[p].op = "transfer" /\ pc'[p] = "idle")
          => \A v \in Variants : SumOver(balances', v, Locs) = SumOver(balances, v, Locs)]_vars

\* C38: every opname item has system_qty > 0; once a session exists, a pair
\* it holds no item for never gets one and never gets a count recorded, and
\* every adjustment booked for the session is for a pair it holds an item for.
C38_SnapshotPositive ==
    [][/\ \A s \in Sessions, x \in Pairs :
            /\ opname'[s].items[x].present => opname'[s].items[x].system_qty > 0
            /\ (opname[s].status # "NONE" /\ ~opname[s].items[x].present)
                 => opname'[s].items[x] = opname[s].items[x]
       /\ \A i \in 1..Len(movements') :
            movements'[i].ref_table = "stock_opname"
            => opname'[movements'[i].ref_id].items[<<movements'[i].variant_id,
                                                     movements'[i].location_id>>].present]_vars

\* the session holds an item for the pair of location 1 and none for the pair
\* of location 2, whose balance is negative, and a count was refused
C38_Witness ==
    /\ opname[1].status = "ACTIVE"
    /\ opname[1].location_id = 0
    /\ opname[1].items[<<1, 1>>].present
    /\ ~opname[1].items[<<1, 2>>].present
    /\ balances[<<1, 2>>] = Row(0 - 1)
    /\ result[1] = "NotFound"

\* C39 as stated: a movement request whose SELECT found no balance row for
\* its pair succeeds, and the row of the pair then holds the quantity of the
\* row as it is at the write (0 without a row) plus (IN) or minus (OUT) its
\* own: of two first movements that overlap both are reflected in the row.
C39_ConcurrentFirstMovements ==
    [][\A p \in Procs :
          LET c == call[p]
              x == <<c.variantId, c.locationId>>
          IN  (/\ req[p].op = "movement"
               /\ pc[p] = "cm_write"
               /\ pc'[p] # "cm_write"
               /\ ~lv[p].rowExists)
              => /\ result'[p] = "ok"
                 /\ balances'[x] = Row(IF c.movementType = "IN"
                                        THEN BalanceQty(x) + c.qty
                                        ELSE BalanceQty(x) - c.qty)]_vars

\* C40 as stated: a request that has released the connection it took has
\* released it once, and the connection had no open transaction when it went
\* back to the pool.
C40_ConnectionReleasedClean ==
    \A p \in Procs :
        pool.hold[p].phase = "released"
        => (pool.hold[p].releases = 1 /\ ~pool.hold[p].releasedOpen)

====
